---- MODULE Spec2Model ----
(***************************************************************************)
(* Memograph CLI: the LLM inspection pipeline (inspectTranscript), the     *)
(* event mapping of the drift detector, the scoring functions, the text    *)
(* normalizer and similarity functions, the hosted analyze client, and the *)
(* command line's transcript loader, settings loader, select menu, path    *)
(* prompt, setup wizard and progress indicator.                            *)
(*                                                                         *)
(* Number conventions (TLC has integers only):                             *)
(*   - severity is held in tenths        (2.5 is 25, the default 3 is 30), *)
(*   - confidence is held in hundredths  (0.5 is 50, 0.95 is 95),          *)
(*   - the numeric fields of an InspectResult (drift_score, raw_score,     *)
(*     token_waste_pct) and the detector's drift_score are held in tenths  *)
(*     (42.5 is 425, 100 is 1000),                                         *)
(*   - calculateDriftScore and its weights are in plain units,             *)
(*   - calculateTokenWaste returns the exact ratio [num, den].             *)
(* A JSON object is a record that has exactly the fields that are present; *)
(* a missing field is a field outside DOMAIN.                              *)
(***************************************************************************)
EXTENDS Integers, Sequences, FiniteSets, TLC

VARIABLES
    pc,            \* position of inspectTranscript: start, extract, detect, done, threw
    transcript,    \* transcript.messages
    config,        \* InspectConfig: max_messages, and whether an API key can be found
    rawFacts,      \* the elements of the facts arrays the model answered, in order
    facts,         \* facts extracted so far (allFacts / extractResult.facts)
    factBatch,     \* loop variable i of extractFactsLLMBatched
    rawEvents,     \* the elements of the events arrays the model answered, in order
    allEvents,     \* events in the order the detector emitted them (before the sort)
    driftScores,   \* drift scores the detector reported, one per answered call
    driftBatch,    \* loop variable i of detectDriftLLMBatched
    result,        \* the InspectResult, once returned
    error,         \* the message of the error thrown, once thrown
    scoreCall,     \* calculateDriftScore: its arguments and, once called, its return value
    wasteCall,     \* calculateTokenWaste: its arguments and, once called, its return value
    extractCall,   \* extractFactsLLM / extractFactsLLMBatched called directly: arguments, loop, facts
    textCall,      \* normalizeText: its argument and, once called, its return value
    similarCall,   \* jaccardSimilarity / areSimilar: arguments and, once called, return values
    hostedCall,    \* analyzeTranscriptHosted / callHostedApi: options, attempt, requests sent, outcome
    loadCall,      \* loadTranscript: the file it reads and, once called, its outcome
    settingsCall,  \* loadSettings: environment, config file and, once called, the settings returned
    menuCall,      \* selectMenu: the keys read so far and how the menu ended
    promptCall,    \* promptPathWithCycleAutocomplete: typed input and tab cycle state
    wizardCall,    \* runSetupWizard: currentSettings, the answers given, the settings returned
    progressCall   \* createProgressIndicator: active flag, timer, lines written

inspectVars == <<pc, transcript, config, rawFacts, facts, factBatch, rawEvents,
                 allEvents, driftScores, driftBatch, result, error>>

\* the calls made outside inspectTranscript
cliCalls == <<loadCall, settingsCall, menuCall, promptCall, wizardCall, progressCall>>

directCalls == <<scoreCall, wasteCall, extractCall, textCall, similarCall, hostedCall,
                 cliCalls>>

vars == <<pc, transcript, config, rawFacts, facts, factBatch, rawEvents, allEvents,
          driftScores, driftBatch, result, error, scoreCall, wasteCall,
          extractCall, textCall, similarCall, hostedCall, loadCall, settingsCall,
          menuCall, promptCall, wizardCall, progressCall>>

(***************************************************************************)
(* Bounds of the model.                                                    *)
(***************************************************************************)
MaxFacts == 1          \* facts one inspection extracts in total
MaxEvents == 2         \* events the detector reports in one inspection
MaxScoreEvents == 4    \* length of the event lists given to calculateDriftScore
MaxWasteMessages == 3  \* messages given to calculateTokenWaste
MaxWasteEvents == 2    \* events given to calculateTokenWaste
MaxExtractMessages == 3 \* messages given to extractFactsLLM / extractFactsLLMBatched
MaxExtractFacts == 2   \* facts the model answers during one direct extraction
MaxTextLen == 3        \* characters of a text given to normalizeText
MaxTokens == 3         \* tokens of a list given to areSimilar
MaxRetries == 2        \* largest options.retries given to callHostedApi
MaxLoadMessages == 2   \* most messages in a transcript file given to loadTranscript
MaxOptions == 4        \* most options of a select menu
MaxMenuKeys == 3       \* keys a select menu reads
MaxInputLen == 3       \* characters of the path typed at the path prompt
MaxWrites == 12        \* writes of a progress indicator before it is stopped
MaxIgnored == 2        \* calls made on a progress indicator after it was stopped

(***************************************************************************)
(* Helpers: JavaScript's `x || d`, Math.max / Math.min, Array.slice.       *)
(***************************************************************************)
Has(obj, f) == f \in DOMAIN obj

\* obj.f || d for a numeric field: a missing field and 0 are both falsy
NumOr(obj, f, d) == IF Has(obj, f) /\ obj[f] # 0 THEN obj[f] ELSE d

\* obj.f || d for a string or array field (an empty array is truthy)
FieldOr(obj, f, d) == IF Has(obj, f) THEN obj[f] ELSE d

Min(a, b) == IF a < b THEN a ELSE b

Max(a, b) == IF a > b THEN a ELSE b

\* arr.slice(from, to) with 0-based from (inclusive) and to (exclusive)
Slice(arr, from, to) == SubSeq(arr, from + 1, Min(to, Len(arr)))

RECURSIVE SumSeq(_)
SumSeq(s) == IF s = <<>> THEN 0 ELSE Head(s) + SumSeq(Tail(s))

RECURSIVE MaxSeq(_)
MaxSeq(s) == IF Len(s) = 1 THEN s[1] ELSE Max(Head(s), MaxSeq(Tail(s)))

Range(s) == {s[i] : i \in 1..Len(s)}

(***************************************************************************)
(* score.ts                                                                *)
(***************************************************************************)
\* mutant of DEFAULT_WEIGHTS: two weights exchanged
DEFAULT_WEIGHTS_Swapped ==
    [preference_forgotten |-> 20, repetition_cluster |-> 10,
     session_reset |-> 15, contradiction |-> 10]

DEFAULT_WEIGHTS ==
    [preference_forgotten |-> 15, repetition_cluster |-> 10,
     session_reset |-> 20, contradiction |-> 10]

\* Property names every object literal inherits from Object.prototype: the
\* lookup weights[event.type] finds a function or object there, not undefined.
ObjectPrototypeKeys ==
    {"constructor", "toString", "valueOf", "hasOwnProperty", "__proto__"}

\* weights[event.type] || 0, as [inherited, n]: inherited is TRUE when the
\* lookup returned an inherited (truthy, non-numeric) property
WeightOf(weights, type) ==
    IF type \in DOMAIN weights
    THEN [inherited |-> FALSE, n |-> weights[type]]
    ELSE IF type \in ObjectPrototypeKeys
         THEN [inherited |-> TRUE, n |-> 0]
         ELSE [inherited |-> FALSE, n |-> 0]

\* mutant of calculateDriftScore: the score is not clamped
calculateDriftScore_NoClamp(events, weights) ==
    LET ws == [i \in 1..Len(events) |-> WeightOf(weights, events[i].type)]
        numeric == \A i \in 1..Len(events) : ~ws[i].inherited
        raw_score == SumSeq([i \in 1..Len(events) |-> ws[i].n])
    IN  [numeric |-> numeric,
         raw_score |-> IF numeric THEN raw_score ELSE 0,
         drift_score |-> IF numeric THEN raw_score ELSE 0]

\* calculateDriftScore.  numeric = FALSE stands for the outcome in which
\* `raw_score += weight` added a non-number: raw_score is then a string and
\* drift_score = Math.max(0, Math.min(100, raw_score)) is NaN.
calculateDriftScore(events, weights) ==
    LET ws == [i \in 1..Len(events) |-> WeightOf(weights, events[i].type)]
        numeric == \A i \in 1..Len(events) : ~ws[i].inherited
        raw_score == SumSeq([i \in 1..Len(events) |-> ws[i].n])
    IN  [numeric |-> numeric,
         raw_score |-> IF numeric THEN raw_score ELSE 0,
         drift_score |-> IF numeric THEN Max(0, Min(100, raw_score)) ELSE 0]

\* mutant of calculateTokenWaste: a message is counted once per cluster that
\* names it (no Set of indices)
calculateTokenWaste_NoSet(messages, events) ==
    LET repetitionEvents == SelectSeq(events, LAMBDA e : e.type = "repetition_cluster")
        Find(idx) == LET hits == {j \in 1..Len(messages) : messages[j].idx = idx}
                     IN  IF hits = {} THEN 0
                         ELSE CHOOSE j \in hits : \A k \in hits : j <= k
        TokensOf(idx) == IF Find(idx) # 0 /\ messages[Find(idx)].role = "user"
                         THEN NumOr(messages[Find(idx)], "tokens", 0) ELSE 0
        wasteTokens == SumSeq([k \in 1..Len(repetitionEvents) |->
                          SumSeq([i \in 1..Len(repetitionEvents[k].evidence.msg_idxs) |->
                                     TokensOf(repetitionEvents[k].evidence.msg_idxs[i])])])
        totalTokens == SumSeq([j \in 1..Len(messages) |->
                                  NumOr(messages[j], "tokens", 0)])
    IN  IF Len(repetitionEvents) = 0 THEN [num |-> 0, den |-> 1]
        ELSE IF totalTokens = 0 THEN [num |-> 0, den |-> 1]
        ELSE [num |-> wasteTokens * 100, den |-> totalTokens]

\* mutant of calculateTokenWaste: no `totalTokens === 0` return, so that the
\* quotient 0 / 0 (den = 0, JavaScript's NaN) is returned
calculateTokenWaste_NoZeroGuard(messages, events) ==
    LET repetitionEvents == SelectSeq(events, LAMBDA e : e.type = "repetition_cluster")
        wasteIndices == UNION {Range(repetitionEvents[k].evidence.msg_idxs) :
                                  k \in 1..Len(repetitionEvents)}
        wasteTokens == SumSeq([j \in 1..Len(messages) |->
                                  IF messages[j].role = "user" /\ messages[j].idx \in wasteIndices
                                  THEN NumOr(messages[j], "tokens", 0) ELSE 0])
        totalTokens == SumSeq([j \in 1..Len(messages) |->
                                  NumOr(messages[j], "tokens", 0)])
    IN  IF Len(repetitionEvents) = 0 THEN [num |-> 0, den |-> 1]
        ELSE [num |-> wasteTokens * 100, den |-> totalTokens]

\* calculateTokenWaste, returning the exact quotient 100 * num / den
calculateTokenWaste(messages, events) ==
    LET repetitionEvents == SelectSeq(events, LAMBDA e : e.type = "repetition_cluster")
        wasteIndices == UNION {Range(repetitionEvents[k].evidence.msg_idxs) :
                                  k \in 1..Len(repetitionEvents)}
        \* messages.find(m => m.idx === idx): the first message with that idx
        Find(idx) == LET hits == {j \in 1..Len(messages) : messages[j].idx = idx}
                     IN  IF hits = {} THEN 0
                         ELSE CHOOSE j \in hits : \A k \in hits : j <= k
        counted == {idx \in wasteIndices :
                       Find(idx) # 0 /\ messages[Find(idx)].role = "user"}
        RECURSIVE SumTokens(_)
        SumTokens(S) == IF S = {} THEN 0
                        ELSE LET idx == CHOOSE x \in S : TRUE
                             IN  NumOr(messages[Find(idx)], "tokens", 0)
                                   + SumTokens(S \ {idx})
        wasteTokens == SumTokens(counted)
        totalTokens == SumSeq([j \in 1..Len(messages) |->
                                  NumOr(messages[j], "tokens", 0)])
    IN  IF Len(repetitionEvents) = 0 THEN [num |-> 0, den |-> 1]
        ELSE IF totalTokens = 0 THEN [num |-> 0, den |-> 1]
        ELSE [num |-> wasteTokens * 100, den |-> totalTokens]

(***************************************************************************)
(* llm/detect-llm.ts                                                       *)
(***************************************************************************)
\* a null element of a JSON array
NullRecord == [null |-> TRUE]

\* event.details?.key || dflt
DetailOr(event, key, dflt) ==
    IF Has(event, "details") /\ Has(event.details, key) THEN event.details[key] ELSE dflt

\* baseEvent of mapLLMEventToDriftEvent (context is set only when details is)
baseEvent(event) ==
    [severity |-> Max(10, Min(50, NumOr(event, "severity", 30))),
     confidence |-> Max(0, Min(100, NumOr(event, "confidence", 50))),
     evidence |-> [msg_idxs |-> FieldOr(event, "msg_idxs", <<>>),
                   snippets |-> FieldOr(event, "snippets", <<>>)]
                  @@ (IF Has(event, "details") THEN [context |-> event.details]
                      ELSE <<>>),
     summary |-> FieldOr(event, "summary", "No summary provided")]

\* event.msg_idxs?.length || 2
ClusterSizeOf(event) ==
    IF Has(event, "msg_idxs") /\ Len(event.msg_idxs) # 0 THEN Len(event.msg_idxs) ELSE 2

\* mutant of mapLLMEventToDriftEvent: an event of an unrecognised type keeps
\* the type it was reported with
mapLLMEventToDriftEvent_KeepType(event) ==
    LET type == FieldOr(event, "type", "undefined")
        base == baseEvent(event)
    IN  CASE type = "repetition_cluster" ->
               base @@ [type |-> "repetition_cluster", cluster_size |-> ClusterSizeOf(event)]
          [] type = "session_reset" ->
               base @@ [type |-> "session_reset",
                        reset_phrase |-> DetailOr(event, "reset_phrase", "reset")]
          [] type = "preference_forgotten" ->
               base @@ [type |-> "preference_forgotten",
                        preference_key |-> DetailOr(event, "preference_key", "unknown"),
                        preference_value |-> DetailOr(event, "preference_value", "unknown")]
          [] type = "contradiction" ->
               base @@ [type |-> "contradiction",
                        old_value |-> DetailOr(event, "old_value", "unknown"),
                        new_value |-> DetailOr(event, "new_value", "unknown")]
          [] OTHER ->
               base @@ [type |-> type, reset_phrase |-> "unknown drift"]

\* mapLLMEventToDriftEvent, for an event that is a JSON object
mapLLMEventToDriftEvent(event) ==
    LET type == FieldOr(event, "type", "undefined")
        base == baseEvent(event)
    IN  CASE type = "repetition_cluster" ->
               base @@ [type |-> "repetition_cluster", cluster_size |-> ClusterSizeOf(event)]
          [] type = "session_reset" ->
               base @@ [type |-> "session_reset",
                        reset_phrase |-> DetailOr(event, "reset_phrase", "reset")]
          [] type = "preference_forgotten" ->
               base @@ [type |-> "preference_forgotten",
                        preference_key |-> DetailOr(event, "preference_key", "unknown"),
                        preference_value |-> DetailOr(event, "preference_value", "unknown")]
          [] type = "contradiction" ->
               base @@ [type |-> "contradiction",
                        old_value |-> DetailOr(event, "old_value", "unknown"),
                        new_value |-> DetailOr(event, "new_value", "unknown")]
          [] type = "context_loss" ->
               base @@ [type |-> "session_reset", reset_phrase |-> "context lost"]
          [] type = "inconsistent_behavior" ->
               base @@ [type |-> "preference_forgotten",
                        preference_key |-> "behavior",
                        preference_value |-> "inconsistent"]
          [] OTHER ->
               base @@ [type |-> "session_reset", reset_phrase |-> "unknown drift"]

\* mutant of detectDriftLLM: an event without type, severity, confidence or
\* msg_idxs is dropped instead of mapped
detectDriftLLM_SkipIncomplete(response) ==
    IF response.kind # "ok" \/ NullRecord \in Range(response.events)
    THEN [threw |-> TRUE, events |-> <<>>, drift_scores |-> <<>>]
    ELSE LET kept == SelectSeq(response.events, LAMBDA e :
                        {"type", "severity", "confidence", "msg_idxs"} \subseteq DOMAIN e)
         IN  [threw |-> FALSE,
              events |-> [i \in 1..Len(kept) |-> mapLLMEventToDriftEvent(kept[i])],
              drift_scores |-> IF Has(response, "drift_score")
                               THEN <<Max(0, Min(1000, response.drift_score))>>
                               ELSE <<>>]

\* detectDriftLLM on one answer of the model.  response.kind is "ok" when the
\* content parsed to an object with an events array; every other kind, and a
\* null element (reading a property of null), ends in the catch block.
detectDriftLLM(response) ==
    IF response.kind # "ok" \/ NullRecord \in Range(response.events)
    THEN [threw |-> TRUE, events |-> <<>>, drift_scores |-> <<>>]
    ELSE [threw |-> FALSE,
          events |-> [i \in 1..Len(response.events) |->
                         mapLLMEventToDriftEvent(response.events[i])],
          \* typeof drift_score === 'number' ? clamp to 0..100 : undefined
          drift_scores |-> IF Has(response, "drift_score")
                           THEN <<Max(0, Min(1000, response.drift_score))>>
                           ELSE <<>>]

(***************************************************************************)
(* llm/extract-llm.ts                                                      *)
(***************************************************************************)
userMessagesOf(messages) == SelectSeq(messages, LAMBDA m : m.role = "user")

\* the mapping of one fact of the answer; FALSE when it throws
FactMaps(fact, userMessages) ==
    /\ fact # NullRecord
    /\ (Has(fact, "msg_idx") /\ fact.msg_idx < Len(userMessages)) => fact.msg_idx >= 0

\* mutant of mapFact: the msg_idx of the answer is taken as it is
mapFact_AsReported(fact, userMessages) ==
    LET actualMsgIdx ==
            IF Has(fact, "msg_idx") THEN fact.msg_idx
            ELSE IF Len(userMessages) > 0 THEN userMessages[1].idx ELSE 0
    IN  [f \in {"fact_key", "fact_value"} \cap DOMAIN fact |-> fact[f]]
        @@ [msg_idx |-> actualMsgIdx, confidence |-> NumOr(fact, "confidence", 50)]

mapFact(fact, userMessages) ==
    LET actualMsgIdx ==
            IF Has(fact, "msg_idx") /\ fact.msg_idx < Len(userMessages)
            THEN userMessages[fact.msg_idx + 1].idx
            ELSE IF Len(userMessages) > 0 THEN userMessages[1].idx ELSE 0
    IN  [f \in {"fact_key", "fact_value"} \cap DOMAIN fact |-> fact[f]]
        @@ [msg_idx |-> actualMsgIdx, confidence |-> NumOr(fact, "confidence", 50)]

\* extractFactsLLM on one answer of the model (called with user messages present)
extractFactsLLM(messages, response) ==
    LET userMessages == userMessagesOf(messages)
    IN  IF response.kind # "ok"
           \/ \E i \in 1..Len(response.facts) : ~FactMaps(response.facts[i], userMessages)
        THEN [threw |-> TRUE, facts |-> <<>>]
        ELSE [threw |-> FALSE,
              facts |-> [i \in 1..Len(response.facts) |->
                            mapFact(response.facts[i], userMessages)]]

(***************************************************************************)
(* inspect.ts                                                              *)
(***************************************************************************)
EXTRACT_BATCHED_ABOVE == 50    \* cappedMessages.length > 50

DETECT_BATCHED_ABOVE == 100    \* cappedMessages.length > 100

EXTRACT_BATCH_SIZE == 50       \* batchSize of extractFactsLLMBatched

DETECT_BATCH_SIZE == 100       \* batchSize of detectDriftLLMBatched

TOP_FACTS == 10                \* .slice(0, 10)

\* mutant of compareEvents: the confidence is not compared
compareEvents_SeverityOnly(a, b) == b.severity - a.severity

\* the comparator of events.sort: negative when a goes before b
compareEvents(a, b) ==
    IF a.severity # b.severity THEN b.severity - a.severity
    ELSE b.confidence - a.confidence

\* the comparator of the should_have_been_memory sort
compareFacts(a, b) == b.confidence - a.confidence

\* the comparator handed to Array.prototype.sort at each of the two call sites
Compare(site, a, b) ==
    IF site = "events" THEN compareEvents(a, b) ELSE compareFacts(a, b)

\* Array.prototype.sort is stable: an element goes behind every element it
\* does not strictly precede
RECURSIVE InsertSorted(_, _, _)
InsertSorted(sorted, x, site) ==
    IF sorted = <<>> THEN <<x>>
    ELSE IF Compare(site, x, Head(sorted)) < 0 THEN <<x>> \o sorted
    ELSE <<Head(sorted)>> \o InsertSorted(Tail(sorted), x, site)

RECURSIVE ArraySort(_, _, _)
ArraySort(sorted, rest, site) ==
    IF rest = <<>> THEN sorted
    ELSE ArraySort(InsertSorted(sorted, Head(rest), site), Tail(rest), site)

sortEvents(events) == ArraySort(<<>>, events, "events")

sortFacts(extracted) == ArraySort(<<>>, extracted, "facts")

\* Math.round of a number held in tenths
MathRound(tenths) == ((tenths + 5) \div 10) * 10

\* Number(x.toFixed(1)) of the quotient q.num / q.den, in tenths
ToFixed1(q) == (20 * q.num + q.den) \div (2 * q.den)

cappedMessagesOf(cfg, messages) ==
    IF cfg.max_messages # 0 THEN Slice(messages, 0, cfg.max_messages) ELSE messages

\* inspectTranscript from the sort to the return statement
BuildResult(cappedMessages, extracted, events, scores) ==
    LET sorted == sortEvents(events)
        calculated == calculateDriftScore(sorted, DEFAULT_WEIGHTS)
    IN  [drift_score |-> IF scores # <<>> THEN MathRound(MaxSeq(scores))
                         ELSE 10 * calculated.drift_score,
         raw_score |-> IF scores # <<>> THEN MaxSeq(scores)
                       ELSE 10 * calculated.raw_score,
         token_waste_pct |-> ToFixed1(calculateTokenWaste(cappedMessages, sorted)),
         events |-> sorted,
         should_have_been_memory |->
             Slice(sortFacts(extracted), 0, TOP_FACTS)]

(***************************************************************************)
(* The inputs of an inspection: transcripts, configurations and the JSON   *)
(* answers of the model.                                                   *)
(***************************************************************************)
\* a present-fields-only record without fields
None == [f \in {} |-> 0]

LongLen == 101         \* messages of the long transcript

ShortTranscript ==
    <<[idx |-> 0, role |-> "user", tokens |-> 5],
      [idx |-> 1, role |-> "assistant", tokens |-> 3],
      [idx |-> 2, role |-> "user", tokens |-> 5]>>

\* no user message, and tokens never estimated
AssistantOnlyTranscript == <<[idx |-> 0, role |-> "assistant"]>>

LongTranscript ==
    [i \in 1..LongLen |->
        [idx |-> i - 1, role |-> IF i % 2 = 1 THEN "user" ELSE "assistant", tokens |-> 1]]

\* transcripts loaded from JSON: transcript.raw_text is not set, so the raw
\* variants of extraction and detection are never taken
Transcripts == {<<>>, ShortTranscript, AssistantOnlyTranscript, LongTranscript}

Configs == [max_messages : {0, 2}, apiKey : BOOLEAN]

\* elements of the facts array of an answer
RawFacts ==
    {[fact_key |-> "pref:language", fact_value |-> "bangla", msg_idx |-> 1, confidence |-> 90],
     [fact_value |-> "bangla"],
     [fact_key |-> "identity:name", fact_value |-> "jane", msg_idx |-> -1, confidence |-> 70],
     NullRecord}

\* elements of the events array of an answer
RawEvents ==
    {[type |-> "repetition_cluster", severity |-> 20, confidence |-> 70,
      msg_idxs |-> <<0, 2>>, snippets |-> <<"a", "b">>, summary |-> "repeated"],
     [type |-> "repetition_cluster", severity |-> 25, confidence |-> 70],
     [type |-> "repetition_cluster", severity |-> 20, confidence |-> 70, msg_idxs |-> <<>>],
     [type |-> "session_reset", severity |-> 40, confidence |-> 90, msg_idxs |-> <<1>>,
      details |-> [reset_phrase |-> "start over"]],
     [type |-> "preference_forgotten", severity |-> 40, confidence |-> 70, msg_idxs |-> <<0>>],
     [type |-> "contradiction", severity |-> 20, confidence |-> 95, msg_idxs |-> <<0, 2>>],
     [type |-> "context_loss", severity |-> 70, confidence |-> 150, msg_idxs |-> <<9>>],
     [type |-> "inconsistent_behavior", severity |-> 0, confidence |-> 0, msg_idxs |-> <<0>>],
     [type |-> "invalid_event"],
     [severity |-> -10, confidence |-> -20, msg_idxs |-> <<2>>],
     NullRecord}

ListsOf(S, n) == UNION {[1..k -> S] : k \in 0..n}

\* Scenario 2: one session_reset for each of 20 assistant messages
ResetFlood ==
    [i \in 1..20 |->
        [type |-> "session_reset", severity |-> 50, confidence |-> 90, msg_idxs |-> <<1>>]]

FailureKinds == {"api_error", "bad_json", "not_object", "no_array"}

\* the answers to one fact extraction call, with room for `room` more facts
FactResponses(room) ==
    {[kind |-> k] : k \in FailureKinds}
    \cup {[kind |-> "ok", facts |-> fs] : fs \in ListsOf(RawFacts, room)}

\* the transcript of the README's quick start (Scenario 1): tokens estimated
\* as ceil(content.length / 4)
ReadmeTranscript ==
    <<[idx |-> 0, role |-> "user", tokens |-> 5],
      [idx |-> 1, role |-> "assistant", tokens |-> 5],
      [idx |-> 2, role |-> "user", tokens |-> 9],
      [idx |-> 3, role |-> "assistant", tokens |-> 2],
      [idx |-> 4, role |-> "user", tokens |-> 11]>>

\* answers about the README transcript: the preference stated in the user
\* messages at idx 2 and 4, and a name that changes between idx 0 and idx 4
ReadmeFactResponses(messages) ==
    IF messages # ReadmeTranscript THEN {}
    ELSE {[kind |-> "ok", facts |->
             <<[fact_key |-> "pref:language", fact_value |-> "bangla",
                msg_idx |-> 1, confidence |-> 70],
               [fact_key |-> "pref:language", fact_value |-> "bangla",
                msg_idx |-> 2, confidence |-> 70]>>],
          [kind |-> "ok", facts |->
             <<[fact_key |-> "identity:name", fact_value |-> "tusher",
                msg_idx |-> 0, confidence |-> 90],
               [fact_key |-> "identity:name", fact_value |-> "jane",
                msg_idx |-> 2, confidence |-> 90]>>]}

\* the answers to one drift detection call, with room for `room` more events
DriftResponses(room) ==
    {[kind |-> k] : k \in FailureKinds}
    \cup {[kind |-> "ok", events |-> es] @@ sc :
             es \in ListsOf(RawEvents, room) \cup (IF room = MaxEvents THEN {ResetFlood} ELSE {}),
             sc \in {None, [drift_score |-> 425], [drift_score |-> 1500]}}

(***************************************************************************)
(* inspectTranscript as a state machine: one action per awaited call.      *)
(***************************************************************************)
NoResult == [none |-> TRUE]

IdleCall == [called |-> FALSE]

\* none of the command line's functions has been called
CliIdle ==
    /\ loadCall = IdleCall
    /\ settingsCall = IdleCall
    /\ menuCall = IdleCall
    /\ promptCall = IdleCall
    /\ wizardCall = IdleCall
    /\ progressCall = IdleCall

\* none of the functions of the earlier sections has been called
CoreIdle ==
    /\ scoreCall = IdleCall
    /\ wasteCall = IdleCall
    /\ extractCall = IdleCall
    /\ textCall = IdleCall
    /\ similarCall = IdleCall
    /\ hostedCall = IdleCall

cappedMessages == cappedMessagesOf(config, transcript)

InitInspect ==
    /\ pc = "start"
    /\ transcript \in Transcripts
    /\ config \in Configs
    /\ rawFacts = <<>>
    /\ facts = <<>>
    /\ factBatch = 0
    /\ rawEvents = <<>>
    /\ allEvents = <<>>
    /\ driftScores = <<>>
    /\ driftBatch = 0
    /\ result = NoResult
    /\ error = ""

Init ==
    /\ CliIdle
    /\ InitInspect
    /\ scoreCall = IdleCall
    /\ wasteCall = IdleCall
    /\ extractCall = IdleCall
    /\ textCall = IdleCall
    /\ similarCall = IdleCall
    /\ hostedCall = IdleCall

Throw(message) ==
    /\ pc' = "threw"
    /\ error' = message
    /\ UNCHANGED <<transcript, config, rawFacts, facts, factBatch, rawEvents, allEvents,
                   driftScores, driftBatch, result>>

\* createLLMClient: the constructor throws when no API key is found
CreateClient ==
    /\ pc = "start"
    /\ IF config.apiKey
       THEN /\ pc' = "extract"
            /\ UNCHANGED <<transcript, config, rawFacts, facts, factBatch, rawEvents,
                           allEvents, driftScores, driftBatch, result, error>>
       ELSE Throw("API key not found")
    /\ UNCHANGED directCalls

\* extractFactsLLM(cappedMessages): no call to the model without user messages
ExtractFacts ==
    /\ pc = "extract"
    /\ Len(cappedMessages) <= EXTRACT_BATCHED_ABOVE
    /\ IF userMessagesOf(cappedMessages) = <<>>
       THEN /\ pc' = "detect"
            /\ facts' = <<>>
            /\ UNCHANGED <<transcript, config, rawFacts, factBatch, rawEvents, allEvents,
                           driftScores, driftBatch, result, error>>
       ELSE \E response \in FactResponses(MaxFacts) \cup ReadmeFactResponses(cappedMessages) :
              LET r == extractFactsLLM(cappedMessages, response)
              IN  IF r.threw THEN Throw("LLM fact extraction failed")
                  ELSE /\ pc' = "detect"
                       /\ rawFacts' = response.facts
                       /\ facts' = r.facts
                       /\ UNCHANGED <<transcript, config, factBatch, rawEvents, allEvents,
                                      driftScores, driftBatch, result, error>>
    /\ UNCHANGED directCalls

\* one iteration of the loop of extractFactsLLMBatched
ExtractFactsBatched ==
    /\ pc = "extract"
    /\ Len(cappedMessages) > EXTRACT_BATCHED_ABOVE
    /\ LET userMessages == userMessagesOf(cappedMessages)
           batch == Slice(userMessages, factBatch, factBatch + EXTRACT_BATCH_SIZE)
       IN  IF factBatch >= Len(userMessages)
           THEN /\ pc' = "detect"
                /\ UNCHANGED <<transcript, config, rawFacts, facts, factBatch, rawEvents,
                               allEvents, driftScores, driftBatch, result, error>>
           ELSE \E response \in FactResponses(MaxFacts - Len(facts)) :
                  LET r == extractFactsLLM(batch, response)
                  IN  IF r.threw THEN Throw("LLM fact extraction failed")
                      ELSE /\ rawFacts' = rawFacts \o response.facts
                           /\ facts' = facts \o r.facts
                           /\ factBatch' = factBatch + EXTRACT_BATCH_SIZE
                           /\ pc' = IF factBatch + EXTRACT_BATCH_SIZE >= Len(userMessages)
                                    THEN "detect" ELSE "extract"
                           /\ UNCHANGED <<transcript, config, rawEvents, allEvents,
                                          driftScores, driftBatch, result, error>>
    /\ UNCHANGED directCalls

\* detectDriftLLM(cappedMessages, facts), then the rest of inspectTranscript
DetectDrift ==
    /\ pc = "detect"
    /\ Len(cappedMessages) <= DETECT_BATCHED_ABOVE
    /\ \E response \in DriftResponses(MaxEvents) :
         LET r == detectDriftLLM(response)
         IN  IF r.threw THEN Throw("LLM drift detection failed")
             ELSE /\ rawEvents' = response.events
                  /\ allEvents' = r.events
                  /\ driftScores' = r.drift_scores
                  /\ result' = BuildResult(cappedMessages, facts, r.events, r.drift_scores)
                  /\ pc' = "done"
                  /\ UNCHANGED <<transcript, config, rawFacts, facts, factBatch,
                                 driftBatch, error>>
    /\ UNCHANGED directCalls

\* one iteration of the loop of detectDriftLLMBatched; after the last one the
\* maximum of the reported scores is taken and inspectTranscript finishes
DetectDriftBatched ==
    /\ pc = "detect"
    /\ Len(cappedMessages) > DETECT_BATCHED_ABOVE
    /\ \E response \in DriftResponses(MaxEvents - Len(allEvents)) :
         LET r == detectDriftLLM(response)
             events == allEvents \o r.events
             scores == driftScores \o r.drift_scores
             last == driftBatch + DETECT_BATCH_SIZE >= Len(cappedMessages)
         IN  IF r.threw THEN Throw("LLM drift detection failed")
             ELSE /\ rawEvents' = rawEvents \o response.events
                  /\ allEvents' = events
                  /\ driftScores' = scores
                  /\ driftBatch' = driftBatch + DETECT_BATCH_SIZE
                  /\ IF last
                     THEN /\ result' = BuildResult(cappedMessages, facts, events,
                                  IF scores = <<>> THEN <<>> ELSE <<MaxSeq(scores)>>)
                          /\ pc' = "done"
                     ELSE UNCHANGED <<result, pc>>
                  /\ UNCHANGED <<transcript, config, rawFacts, facts, factBatch, error>>
    /\ UNCHANGED directCalls

Next ==
    \/ CreateClient
    \/ ExtractFacts
    \/ ExtractFactsBatched
    \/ DetectDrift
    \/ DetectDriftBatched

Spec == Init /\ [][Next]_vars

\* inspectTranscript on the README transcript, with config.analyzeMode absent,
\* 'hosted' or 'llm'
ReadmeConfigs ==
    {[max_messages |-> 0, apiKey |-> k] @@ mode :
        k \in BOOLEAN,
        mode \in {None, [analyzeMode |-> "hosted"], [analyzeMode |-> "llm"]}}

InitReadme ==
    /\ CliIdle
    /\ pc = "start"
    /\ transcript = ReadmeTranscript
    /\ config \in ReadmeConfigs
    /\ rawFacts = <<>>
    /\ facts = <<>>
    /\ factBatch = 0
    /\ rawEvents = <<>>
    /\ allEvents = <<>>
    /\ driftScores = <<>>
    /\ driftBatch = 0
    /\ result = NoResult
    /\ error = ""
    /\ scoreCall = IdleCall
    /\ wasteCall = IdleCall
    /\ extractCall = IdleCall
    /\ textCall = IdleCall
    /\ similarCall = IdleCall
    /\ hostedCall = IdleCall

\* the steps of inspectTranscript a transcript of five messages can take
NextReadme ==
    \/ CreateClient
    \/ ExtractFacts
    \/ DetectDrift

SpecReadme == InitReadme /\ [][NextReadme]_vars

(***************************************************************************)
(* Direct calls of the exported scoring functions.                         *)
(***************************************************************************)
InspectIdle ==
    /\ pc = "idle"
    /\ transcript = <<>>
    /\ config = [max_messages |-> 0, apiKey |-> FALSE]
    /\ rawFacts = <<>>
    /\ facts = <<>>
    /\ factBatch = 0
    /\ rawEvents = <<>>
    /\ allEvents = <<>>
    /\ driftScores = <<>>
    /\ driftBatch = 0
    /\ result = NoResult
    /\ error = ""

\* the four members of the DriftEvent union
DriftEventTypes ==
    {"repetition_cluster", "session_reset", "preference_forgotten", "contradiction"}

\* type strings a caller can pass: the union, a type of the detection prompt
\* that is not in the weight table, and a name inherited from Object.prototype
ScoreTypes == DriftEventTypes \cup {"context_loss", "constructor"}

\* a weights argument other than the default
CustomWeights ==
    [preference_forgotten |-> -15, repetition_cluster |-> 0,
     session_reset |-> 60, contradiction |-> 10]

ScoreEventLists ==
    ListsOf([type : ScoreTypes], MaxScoreEvents)
    \cup {[i \in 1..20 |-> [type |-> "session_reset"]]}

InitScore ==
    /\ CliIdle
    /\ InspectIdle
    /\ scoreCall \in [called : {FALSE}, events : ScoreEventLists,
                      weights : {DEFAULT_WEIGHTS, CustomWeights}]
    /\ wasteCall = IdleCall
    /\ extractCall = IdleCall
    /\ textCall = IdleCall
    /\ similarCall = IdleCall
    /\ hostedCall = IdleCall

CallCalculateDriftScore ==
    /\ scoreCall # IdleCall
    /\ ~scoreCall.called
    /\ scoreCall' = [called |-> TRUE, events |-> scoreCall.events,
                     weights |-> scoreCall.weights,
                     ret |-> calculateDriftScore(scoreCall.events, scoreCall.weights)]
    /\ UNCHANGED <<inspectVars, wasteCall, extractCall, textCall, similarCall, hostedCall, cliCalls>>

NextScore == CallCalculateDriftScore

SpecScore == InitScore /\ [][NextScore]_vars

\* messages as normalizeTranscript leaves them when the input gave no idx:
\* idx is the array position; tokens is a number (0 when the content is empty)
WasteMessageLists ==
    UNION {{[j \in 1..n |-> [idx |-> j - 1, role |-> rt[j][1], tokens |-> rt[j][2]]] :
               rt \in [1..n -> {"user", "assistant"} \X {0, 2, 3}]} :
           n \in 0..MaxWasteMessages}

WasteEvents ==
    {[type |-> "repetition_cluster", evidence |-> [msg_idxs |-> ix]] :
        ix \in {<<0>>, <<0, 2>>, <<1, 2>>, <<7>>}}
    \cup {[type |-> "session_reset", evidence |-> [msg_idxs |-> <<0, 1>>]]}

InitWaste ==
    /\ CliIdle
    /\ InspectIdle
    /\ scoreCall = IdleCall
    /\ extractCall = IdleCall
    /\ textCall = IdleCall
    /\ similarCall = IdleCall
    /\ hostedCall = IdleCall
    /\ wasteCall \in [called : {FALSE}, messages : WasteMessageLists,
                      events : ListsOf(WasteEvents, MaxWasteEvents)]

CallCalculateTokenWaste ==
    /\ wasteCall # IdleCall
    /\ ~wasteCall.called
    /\ wasteCall' = [called |-> TRUE, messages |-> wasteCall.messages,
                     events |-> wasteCall.events,
                     ret |-> calculateTokenWaste(wasteCall.messages, wasteCall.events)]
    /\ UNCHANGED <<inspectVars, scoreCall, extractCall, textCall, similarCall, hostedCall, cliCalls>>

NextWaste == CallCalculateTokenWaste

SpecWaste == InitWaste /\ [][NextWaste]_vars

(***************************************************************************)
(* Direct calls of extractFactsLLM and extractFactsLLMBatched.             *)
(***************************************************************************)
\* message lists with unique idx, counted from 0 (auto-assigned) or from 5
ExtractMessageLists ==
    UNION {{[j \in 1..n |-> [idx |-> base + j - 1, role |-> roles[j]]] :
               roles \in [1..n -> {"user", "assistant"}], base \in {0, 5}} :
           n \in 0..MaxExtractMessages}

\* elements of the facts array of an answer: msg_idx missing, negative, in
\* range and beyond the user messages
ExtractRawFacts ==
    {[fact_key |-> "pref:language", fact_value |-> "bangla"], NullRecord}
    \cup {[fact_key |-> "pref:language", fact_value |-> "bangla", msg_idx |-> m] :
             m \in {-1, 0, 1, 7}}

ExtractResponses(room) ==
    {[kind |-> k] : k \in FailureKinds}
    \cup {[kind |-> "ok", facts |-> fs] : fs \in ListsOf(ExtractRawFacts, room)}

\* the batchSize argument of extractFactsLLMBatched
ExtractBatchSizes == {1, 2}

InitExtract ==
    /\ CliIdle
    /\ InspectIdle
    /\ scoreCall = IdleCall
    /\ wasteCall = IdleCall
    /\ textCall = IdleCall
    /\ similarCall = IdleCall
    /\ hostedCall = IdleCall
    /\ extractCall \in
         [called : {FALSE}, status : {"ready"}, batched : {FALSE},
          batchSize : {EXTRACT_BATCH_SIZE}, messages : ExtractMessageLists,
          i : {0}, raw : {<<>>}, facts : {<<>>}]
         \cup
         [called : {FALSE}, status : {"ready"}, batched : {TRUE},
          batchSize : ExtractBatchSizes, messages : ExtractMessageLists,
          i : {0}, raw : {<<>>}, facts : {<<>>}]

\* extractFactsLLM(messages, llmClient)
CallExtractFactsLLM ==
    /\ extractCall # IdleCall
    /\ extractCall.status = "ready"
    /\ ~extractCall.batched
    /\ IF userMessagesOf(extractCall.messages) = <<>>
       THEN extractCall' = [extractCall EXCEPT !.called = TRUE, !.status = "returned"]
       ELSE \E response \in ExtractResponses(MaxExtractFacts) :
              LET r == extractFactsLLM(extractCall.messages, response)
              IN  extractCall' =
                    IF r.threw
                    THEN [extractCall EXCEPT !.called = TRUE, !.status = "threw"]
                    ELSE [extractCall EXCEPT !.called = TRUE, !.status = "returned",
                                             !.raw = response.facts, !.facts = r.facts]
    /\ UNCHANGED <<inspectVars, scoreCall, wasteCall, textCall, similarCall, hostedCall, cliCalls>>

\* extractFactsLLMBatched(messages, llmClient, batchSize): one iteration of its
\* loop, or its return when the loop has nothing (more) to do
ExtractFactsLLMBatchedStep ==
    /\ extractCall # IdleCall
    /\ extractCall.status = "ready"
    /\ extractCall.batched
    /\ LET userMessages == userMessagesOf(extractCall.messages)
           i == extractCall.i
           batchSize == extractCall.batchSize
           batch == Slice(userMessages, i, i + batchSize)
       IN  IF i >= Len(userMessages)
           THEN extractCall' = [extractCall EXCEPT !.called = TRUE, !.status = "returned"]
           ELSE \E response \in ExtractResponses(MaxExtractFacts - Len(extractCall.facts)) :
                  LET r == extractFactsLLM(batch, response)
                  IN  extractCall' =
                        IF r.threw
                        THEN [extractCall EXCEPT !.called = TRUE, !.status = "threw"]
                        ELSE [extractCall EXCEPT
                                 !.called = TRUE,
                                 !.raw = extractCall.raw \o response.facts,
                                 !.facts = extractCall.facts \o r.facts,
                                 !.i = i + batchSize,
                                 !.status = IF i + batchSize >= Len(userMessages)
                                            THEN "returned" ELSE "ready"]
    /\ UNCHANGED <<inspectVars, scoreCall, wasteCall, textCall, similarCall, hostedCall, cliCalls>>

NextExtract ==
    \/ CallExtractFactsLLM
    \/ ExtractFactsLLMBatchedStep

SpecExtract == InitExtract /\ [][NextExtract]_vars

(***************************************************************************)
(* normalize.ts: normalizeText.  A string is a sequence of characters; the *)
(* alphabet has one character of each kind the function tells apart.       *)
(***************************************************************************)
\* ASCII lower and upper case letter, digit, underscore, space, tab,
\* punctuation, and a lower and upper case letter outside ASCII
Chars == {"a", "B", "7", "_", " ", "\t", "!", "é", "É"}

\* \s of a JavaScript regular expression (and what trim removes)
IsWhitespace(c) == c \in {" ", "\t"}

\* \w of a JavaScript regular expression without the u flag: [A-Za-z0-9_]
IsWordChar(c) == c \in {"a", "b", "B", "7", "_"}

\* String.prototype.toLowerCase
toLowerCase(text) ==
    [i \in 1..Len(text) |->
        CASE text[i] = "B" -> "b"
          [] text[i] = "É" -> "é"
          [] OTHER -> text[i]]

\* String.prototype.trim
trim(text) ==
    LET inked == {i \in 1..Len(text) : ~IsWhitespace(text[i])}
    IN  IF inked = {} THEN <<>>
        ELSE SubSeq(text, CHOOSE i \in inked : \A j \in inked : i <= j,
                          CHOOSE i \in inked : \A j \in inked : i >= j)

\* .replace(/\s+/g, ' '): every maximal run of whitespace becomes one space
collapseWhitespace(text) ==
    LET marked == [i \in 1..Len(text) |->
                      IF ~IsWhitespace(text[i]) THEN text[i]
                      ELSE IF i > 1 /\ IsWhitespace(text[i - 1]) THEN "" ELSE " "]
    IN  SelectSeq(marked, LAMBDA c : c # "")

\* .replace(/[^\w\s]/g, '')
removeSpecial(text) ==
    SelectSeq(text, LAMBDA c : IsWordChar(c) \/ IsWhitespace(c))

normalizeText(text) ==
    removeSpecial(collapseWhitespace(trim(toLowerCase(text))))

Texts == UNION {[1..n -> Chars] : n \in 0..MaxTextLen}

InitText ==
    /\ CliIdle
    /\ InspectIdle
    /\ scoreCall = IdleCall
    /\ wasteCall = IdleCall
    /\ extractCall = IdleCall
    /\ similarCall = IdleCall
    /\ hostedCall = IdleCall
    /\ textCall \in [called : {FALSE}, text : Texts, results : {<<>>}]

\* normalizeText(text), and then normalizeText of what it returned
CallNormalizeText ==
    /\ textCall # IdleCall
    /\ Len(textCall.results) < 2
    /\ LET argument == IF textCall.results = <<>> THEN textCall.text
                       ELSE textCall.results[Len(textCall.results)]
       IN  textCall' = [textCall EXCEPT !.called = TRUE,
                                        !.results = Append(@, normalizeText(argument))]
    /\ UNCHANGED <<inspectVars, scoreCall, wasteCall, extractCall, similarCall, hostedCall, cliCalls>>

NextText == CallNormalizeText

SpecText == InitText /\ [][NextText]_vars

(***************************************************************************)
(* normalize.ts: jaccardSimilarity and areSimilar.  A similarity is the    *)
(* exact quotient [num, den]; a threshold is held in hundredths.           *)
(***************************************************************************)
DEFAULT_THRESHOLD == 65    \* threshold = 0.65

\* mutant of jaccardSimilarity: no return of 1.0 for two empty sets
jaccardSimilarity_NoBothEmpty(a, b) ==
    IF a = {} \/ b = {} THEN [num |-> 0, den |-> 1]
    ELSE [num |-> Cardinality(a \cap b), den |-> Cardinality(a \cup b)]

jaccardSimilarity(a, b) ==
    IF a = {} /\ b = {} THEN [num |-> 1, den |-> 1]
    ELSE IF a = {} \/ b = {} THEN [num |-> 0, den |-> 1]
    ELSE [num |-> Cardinality(a \cap b), den |-> Cardinality(a \cup b)]

\* mutant of areSimilar: > in place of >=
areSimilar_Above(tokens1, tokens2, threshold) ==
    LET similarity == jaccardSimilarity(Range(tokens1), Range(tokens2))
    IN  100 * similarity.num > threshold * similarity.den

\* jaccardSimilarity(new Set(tokens1), new Set(tokens2)) >= threshold
areSimilar(tokens1, tokens2, threshold) ==
    LET similarity == jaccardSimilarity(Range(tokens1), Range(tokens2))
    IN  100 * similarity.num >= threshold * similarity.den

Tokens == {"hello", "world", "test"}

TokenLists == ListsOf(Tokens, MaxTokens)

\* Scenario 5: token lists whose similarity is 13/20 = 0.65, the default
\* threshold, and 11/17, just below it
BoundaryTokens ==
    <<"w01", "w02", "w03", "w04", "w05", "w06", "w07", "w08", "w09", "w10",
      "w11", "w12", "w13", "w14", "w15", "w16", "w17", "w18", "w19", "w20">>

BoundaryPairs ==
    {<<SubSeq(BoundaryTokens, 1, 20), SubSeq(BoundaryTokens, 1, 13)>>,
     <<SubSeq(BoundaryTokens, 1, 11), SubSeq(BoundaryTokens, 1, 17)>>}

\* the default threshold, the custom threshold of the tests, and the extremes
Thresholds == {0, 50, DEFAULT_THRESHOLD, 100}

InitSimilar ==
    /\ CliIdle
    /\ InspectIdle
    /\ scoreCall = IdleCall
    /\ wasteCall = IdleCall
    /\ extractCall = IdleCall
    /\ textCall = IdleCall
    /\ hostedCall = IdleCall
    /\ \E pair \in (TokenLists \X TokenLists) \cup BoundaryPairs, threshold \in Thresholds :
         similarCall = [called |-> FALSE, tokens1 |-> pair[1], tokens2 |-> pair[2],
                        threshold |-> threshold,
                        jaccardCalled |-> FALSE, jaccard |-> [num |-> 0, den |-> 1],
                        similarCalled |-> FALSE, similar |-> FALSE]

\* jaccardSimilarity(new Set(tokens1), new Set(tokens2))
CallJaccardSimilarity ==
    /\ similarCall # IdleCall
    /\ ~similarCall.jaccardCalled
    /\ similarCall' =
         [similarCall EXCEPT
             !.called = TRUE, !.jaccardCalled = TRUE,
             !.jaccard = jaccardSimilarity(Range(similarCall.tokens1),
                                           Range(similarCall.tokens2))]
    /\ UNCHANGED <<inspectVars, scoreCall, wasteCall, extractCall, textCall, hostedCall, cliCalls>>

\* areSimilar(tokens1, tokens2, threshold)
CallAreSimilar ==
    /\ similarCall # IdleCall
    /\ ~similarCall.similarCalled
    /\ similarCall' =
         [similarCall EXCEPT
             !.called = TRUE, !.similarCalled = TRUE,
             !.similar = areSimilar(similarCall.tokens1, similarCall.tokens2,
                                    similarCall.threshold)]
    /\ UNCHANGED <<inspectVars, scoreCall, wasteCall, extractCall, textCall, hostedCall, cliCalls>>

NextSimilar ==
    \/ CallJaccardSimilarity
    \/ CallAreSimilar

SpecSimilar == InitSimilar /\ [][NextSimilar]_vars

(***************************************************************************)
(* hosted/analyze-client.ts: analyzeTranscriptHosted and callHostedApi,    *)
(* one action per outcome of a fetch.  A retry is the recursive call with  *)
(* attempt + 1; the raw-text fallback is a second callHostedApi invocation *)
(* started at attempt 0.                                                   *)
(***************************************************************************)
RETRYABLE_STATUS == {429, 500, 502, 503, 504}

\* response.status of a response that is not ok
HttpErrorStatuses == {400, 404, 413, 429, 500, 503}

formatHttpError(status) ==
    CASE status = 400 -> "Transcript format invalid."
      [] status = 413 -> "Transcript too large. Reduce input size."
      [] status = 429 -> "Rate limit reached. Retry later."
      [] status >= 500 -> "Analyze service unavailable."
      [] OTHER -> "Analyze API request failed"

\* mutant of retryable: one retry too many (<= in place of <)
retryable_OneMore(kind, status, attempt, retries) ==
    IF kind = "http" THEN status \in RETRYABLE_STATUS /\ attempt <= retries
    ELSE attempt <= retries

\* the three `retryable` constants of callHostedApi: for a response that is
\* not ok, for an AbortError, and for any other error caught
retryable(kind, status, attempt, retries) ==
    IF kind = "http" THEN status \in RETRYABLE_STATUS /\ attempt < retries
    ELSE attempt < retries

\* buildRawFallback(transcript): the text it returns, by where it comes
\* from; a line `${role}: ${content}` is never blank
buildRawFallback(raw_text, messages) ==
    IF raw_text THEN "raw_text"
    ELSE IF messages = 0 THEN "null"
    ELSE "lines"

\* mutant of shouldFallback: any client error of the API starts the fallback
shouldFallback_AnyClientError(call, kind, status, message, messages) ==
    /\ call = "first"
    /\ kind = "http"
    /\ status \in {400, 413}
    /\ messages > 0

\* mutant of shouldFallback: the transcript's messages are not looked at
shouldFallback_NoMessages(call, kind, status, message, messages) ==
    /\ call = "first"
    /\ kind = "http"
    /\ status = 400
    /\ message = "Transcript format invalid."

\* shouldFallback in the catch block of analyzeTranscriptHosted; the catch
\* block surrounds the first callHostedApi invocation only
shouldFallback(call, kind, status, message, messages) ==
    /\ call = "first"
    /\ kind = "http"
    /\ status = 400
    /\ message = "Transcript format invalid."
    /\ messages > 0

\* transcript.messages.length and whether transcript.raw_text is non-blank
HostedTranscripts == [messages : 0..1, raw_text : BOOLEAN]

InitHosted ==
    /\ CliIdle
    /\ InspectIdle
    /\ scoreCall = IdleCall
    /\ wasteCall = IdleCall
    /\ extractCall = IdleCall
    /\ textCall = IdleCall
    /\ similarCall = IdleCall
    /\ \E t \in HostedTranscripts, retries \in 0..MaxRetries :
         hostedCall = [called |-> FALSE, retries |-> retries,
                       messages |-> t.messages, raw_text |-> t.raw_text,
                       call |-> "first", attempt |-> 0, requests |-> 0,
                       fallbacks |-> 0, fallbackAt |-> 0,
                       status |-> "fetching", error |-> "", history |-> <<>>]

\* what follows a fetch that did not produce a result: sleep and call
\* callHostedApi(payload, options, attempt + 1), or throw; an error thrown
\* by the first invocation is caught by analyzeTranscriptHosted, which
\* rethrows it or calls callHostedApi(fallbackPayload, options, 0)
RetryOrThrow(kind, status, message) ==
    hostedCall' =
      IF retryable(kind, status, hostedCall.attempt, hostedCall.retries)
      THEN [hostedCall EXCEPT !.called = TRUE,
                              !.requests = @ + 1,
                              !.attempt = @ + 1,
                              !.history = Append(@, status)]
      ELSE IF /\ shouldFallback(hostedCall.call, kind, status, message,
                                hostedCall.messages)
              /\ buildRawFallback(hostedCall.raw_text, hostedCall.messages) # "null"
      THEN [hostedCall EXCEPT !.called = TRUE,
                              !.call = "fallback",
                              !.requests = 0,
                              !.attempt = 0,
                              !.fallbacks = @ + 1,
                              !.fallbackAt = Len(hostedCall.history) + 1,
                              !.history = Append(@, status)]
      ELSE [hostedCall EXCEPT !.called = TRUE,
                              !.requests = @ + 1,
                              !.status = "threw",
                              !.error = message,
                              !.history = Append(@, status)]

\* the response is ok and its body is an InspectResult
FetchOk ==
    /\ hostedCall # IdleCall
    /\ hostedCall.status = "fetching"
    /\ hostedCall' = [hostedCall EXCEPT !.called = TRUE,
                                        !.requests = @ + 1,
                                        !.status = "returned",
                                        !.history = Append(@, 200)]
    /\ UNCHANGED <<inspectVars, scoreCall, wasteCall, extractCall, textCall, similarCall, cliCalls>>

\* the response is ok but response.json() rejects or isInspectResult fails:
\* the error is thrown inside the try block and caught as any other error
FetchInvalidBody ==
    /\ hostedCall # IdleCall
    /\ hostedCall.status = "fetching"
    /\ RetryOrThrow("error", 299, "Cannot reach analyze API. Invalid API response.")
    /\ UNCHANGED <<inspectVars, scoreCall, wasteCall, extractCall, textCall, similarCall, cliCalls>>

\* the response is not ok
FetchHttpError ==
    /\ hostedCall # IdleCall
    /\ hostedCall.status = "fetching"
    /\ \E status \in HttpErrorStatuses :
         RetryOrThrow("http", status, formatHttpError(status))
    /\ UNCHANGED <<inspectVars, scoreCall, wasteCall, extractCall, textCall, similarCall, cliCalls>>

\* the timer aborts the request: fetch rejects with an AbortError
FetchTimeout ==
    /\ hostedCall # IdleCall
    /\ hostedCall.status = "fetching"
    /\ RetryOrThrow("abort", 0, "Analyze API timed out. Try again.")
    /\ UNCHANGED <<inspectVars, scoreCall, wasteCall, extractCall, textCall, similarCall, cliCalls>>

\* fetch rejects with another error (no connection)
FetchNetworkFailure ==
    /\ hostedCall # IdleCall
    /\ hostedCall.status = "fetching"
    /\ RetryOrThrow("error", -1, "Cannot reach analyze API.")
    /\ UNCHANGED <<inspectVars, scoreCall, wasteCall, extractCall, textCall, similarCall, cliCalls>>

NextHosted ==
    \/ FetchOk
    \/ FetchInvalidBody
    \/ FetchHttpError
    \/ FetchTimeout
    \/ FetchNetworkFailure

SpecHosted == InitHosted /\ [][NextHosted]_vars

(***************************************************************************)
(* core/load.ts: loadTranscript and normalizeTranscript.  A file is        *)
(* described by what readFile and JSON.parse make of it.                   *)
(***************************************************************************)
\* kind: "missing" (readFile fails with ENOENT), "unreadable" (readFile fails
\* with another code), "not_json" (JSON.parse throws SyntaxError), "scalar"
\* (JSON that is neither an array nor an object with a messages array),
\* "array", "object"; messages: the length of the messages array; nullAt:
\* position of a null element in it, 0 for none; schema_version: "" if absent
LoadFiles ==
    [kind : {"missing", "unreadable", "not_json", "scalar"},
     messages : {0}, nullAt : {0}, schema_version : {""}]
    \cup
    {f \in [kind : {"array", "object"}, messages : 0..MaxLoadMessages,
            nullAt : 0..MaxLoadMessages, schema_version : {"", "1.0", "2.0"}] :
        /\ f.nullAt <= f.messages
        /\ f.kind = "array" => f.schema_version = ""}

\* normalizeTranscript(raw, maxMessages); maxMessages = 0 stands for undefined
normalizeTranscript(raw, maxMessages) ==
    IF raw.kind \notin {"array", "object"}
    THEN [threw |-> TRUE,
          error |-> "Invalid transcript: expected messages array or { messages: [...] }"]
    ELSE LET kept == IF maxMessages > 0 THEN Min(raw.messages, maxMessages)
                     ELSE raw.messages
         IN  IF raw.nullAt \in 1..kept
             THEN [threw |-> TRUE, error |-> "TypeError"]
             ELSE [threw |-> FALSE,
                   schema_version |-> IF raw.schema_version = "" THEN "1.0"
                                      ELSE raw.schema_version,
                   messages |-> kept,
                   raw_text |-> FALSE]

\* the transcript loadTranscript returns from its catch block
RawTranscript == [threw |-> FALSE, schema_version |-> "raw", messages |-> 0,
                  raw_text |-> TRUE]

loadTranscript(file, maxMessages) ==
    CASE file.kind = "missing" -> [threw |-> TRUE, error |-> "Transcript file not found"]
      [] file.kind = "unreadable" -> [threw |-> TRUE, error |-> "EACCES"]
      [] file.kind = "not_json" -> RawTranscript
      [] OTHER ->
           LET normalized == normalizeTranscript(file, maxMessages)
           IN  IF normalized.threw /\ normalized.error # "TypeError"
               THEN RawTranscript
               ELSE normalized

InitLoad ==
    /\ InspectIdle
    /\ CoreIdle
    /\ settingsCall = IdleCall
    /\ menuCall = IdleCall
    /\ promptCall = IdleCall
    /\ wizardCall = IdleCall
    /\ progressCall = IdleCall
    /\ \E file \in LoadFiles, maxMessages \in 0..MaxLoadMessages :
         loadCall = [called |-> FALSE, file |-> file, maxMessages |-> maxMessages,
                     outcome |-> NoResult]

CallLoadTranscript ==
    /\ loadCall # IdleCall
    /\ ~ loadCall.called
    /\ loadCall' = [loadCall EXCEPT
                      !.called = TRUE,
                      !.outcome = loadTranscript(loadCall.file, loadCall.maxMessages)]
    /\ UNCHANGED <<inspectVars, scoreCall, wasteCall, extractCall, textCall, similarCall,
                   hostedCall, settingsCall, menuCall, promptCall, wizardCall, progressCall>>

NextLoad == CallLoadTranscript

SpecLoad == InitLoad /\ [][NextLoad]_vars

(***************************************************************************)
(* settings: loadSettings.  The environment and the config file are the    *)
(* inputs; the settings returned are the outcome.                          *)
(***************************************************************************)
defaultSettings == [analyzeMode |-> "hosted", retries |-> 1, provider |-> "openai"]

\* process.env.MEMOGRAPH_ANALYZE_MODE
EnvAnalyzeModes == {"unset", "llm", "hosted", "other"}

getEnvAnalyzeMode(env) == IF env = "llm" THEN "llm" ELSE "hosted"

\* ~/.memograph/config.json: absent, not parseable, or an object holding some
\* of analyzeMode, api.retries and llm.provider
ConfigFiles ==
    {[kind |-> "absent"], [kind |-> "corrupt"]}
    \cup
    {[kind |-> "ok", loaded |-> l] :
       l \in {[f \in fields |-> IF f = "analyzeMode" THEN mode
                                ELSE IF f = "retries" THEN 3
                                ELSE "anthropic"] :
                fields \in SUBSET {"analyzeMode", "retries", "provider"},
                mode \in {"llm", "hosted"}}}

loadSettings(env, file) ==
    CASE file.kind = "absent" ->
           [defaultSettings EXCEPT !.analyzeMode = getEnvAnalyzeMode(env)]
      [] file.kind = "corrupt" -> defaultSettings
      [] OTHER ->
           LET merged == [f \in DOMAIN defaultSettings |->
                            FieldOr(file.loaded, f, defaultSettings[f])]
           IN  [merged EXCEPT !.analyzeMode = getEnvAnalyzeMode(env)]

InitSettings ==
    /\ InspectIdle
    /\ CoreIdle
    /\ loadCall = IdleCall
    /\ menuCall = IdleCall
    /\ promptCall = IdleCall
    /\ wizardCall = IdleCall
    /\ progressCall = IdleCall
    /\ \E env \in EnvAnalyzeModes, file \in ConfigFiles :
         settingsCall = [called |-> FALSE, env |-> env, file |-> file,
                         settings |-> NoResult]

CallLoadSettings ==
    /\ settingsCall # IdleCall
    /\ ~ settingsCall.called
    /\ settingsCall' = [settingsCall EXCEPT
                          !.called = TRUE,
                          !.settings = loadSettings(settingsCall.env, settingsCall.file)]
    /\ UNCHANGED <<inspectVars, scoreCall, wasteCall, extractCall, textCall, similarCall,
                   hostedCall, loadCall, menuCall, promptCall, wizardCall, progressCall>>

NextSettings == CallLoadSettings

SpecSettings == InitSettings /\ [][NextSettings]_vars

(***************************************************************************)
(* interactive: selectMenu, one action per 'data' event of stdin.          *)
(***************************************************************************)
\* the bytes of a key: arrow up, arrow down, Enter, Ctrl+C, Esc, arrow left,
\* the letter a
MenuKeys == {<<27, 91, 65>>, <<27, 91, 66>>, <<13>>, <<3>>, <<27>>, <<27, 91, 68>>, <<97>>}

\* key[i] of a Buffer, counted from 0; -1 stands for undefined
ByteAt(key, i) == IF i + 1 <= Len(key) THEN key[i + 1] ELSE -1

InitMenu ==
    /\ InspectIdle
    /\ CoreIdle
    /\ loadCall = IdleCall
    /\ settingsCall = IdleCall
    /\ promptCall = IdleCall
    /\ wizardCall = IdleCall
    /\ progressCall = IdleCall
    /\ \E n \in 2..MaxOptions :
         menuCall = [called |-> FALSE, options |-> n, selectedIndex |-> 0,
                     resolved |-> FALSE, status |-> "open", choice |-> -1,
                     exitCode |-> -1, keys |-> <<>>]

\* the listener of stdin 'data' in selectMenu
MenuKey(key) ==
    /\ menuCall # IdleCall
    /\ menuCall.status = "open"
    /\ Len(menuCall.keys) < MaxMenuKeys
    /\ LET read == [menuCall EXCEPT !.called = TRUE, !.keys = Append(@, key)]
           n == menuCall.options
       IN  menuCall' =
             IF ByteAt(key, 0) = 27 /\ ByteAt(key, 1) = 91 /\ ByteAt(key, 2) = 65
             THEN [read EXCEPT !.selectedIndex = (@ - 1 + n) % n]
             ELSE IF ByteAt(key, 0) = 27 /\ ByteAt(key, 1) = 91 /\ ByteAt(key, 2) = 66
             THEN [read EXCEPT !.selectedIndex = (@ + 1) % n]
             ELSE IF ByteAt(key, 0) = 13
             THEN [read EXCEPT !.resolved = TRUE, !.status = "resolved",
                               !.choice = menuCall.selectedIndex]
             ELSE IF ByteAt(key, 0) = 3
             THEN [read EXCEPT !.resolved = TRUE, !.status = "exited", !.exitCode = 0]
             ELSE IF ByteAt(key, 0) = 27
             THEN [read EXCEPT !.resolved = TRUE, !.status = "exited", !.exitCode = 1]
             ELSE read
    /\ UNCHANGED <<inspectVars, scoreCall, wasteCall, extractCall, textCall, similarCall,
                   hostedCall, loadCall, settingsCall, promptCall, wizardCall, progressCall>>

NextMenu == \E key \in MenuKeys : MenuKey(key)

SpecMenu == InitMenu /\ [][NextMenu]_vars

(***************************************************************************)
(* cli.ts: promptPathWithCycleAutocomplete, one action per 'data' event,   *)
(* over a working directory that holds the directory a (with the file b),  *)
(* and the files ab and b.                                                 *)
(***************************************************************************)
\* readDirectory(absoluteDirectory) for a directoryPrefix, in the order of
\* the sort of resolvePathCandidates (directories, then other files, each
\* by value); a directory that cannot be read has no entries
DirectoryEntries(directoryPrefix) ==
    CASE directoryPrefix = <<>> ->
           <<[name |-> <<"a">>, isDirectory |-> TRUE],
             [name |-> <<"a", "b">>, isDirectory |-> FALSE],
             [name |-> <<"b">>, isDirectory |-> FALSE]>>
      [] directoryPrefix = <<"a", "/">> ->
           <<[name |-> <<"b">>, isDirectory |-> FALSE]>>
      [] OTHER -> <<>>

\* lastSlash is input.lastIndexOf('/') + 1
splitPathInput(input) ==
    LET slashes == {i \in 1..Len(input) : input[i] = "/"}
        lastSlash == IF slashes = {} THEN 0
                     ELSE CHOOSE i \in slashes : \A j \in slashes : j <= i
    IN  [directoryPrefix |-> SubSeq(input, 1, lastSlash),
         fragment |-> SubSeq(input, lastSlash + 1, Len(input))]

\* entryName.startsWith(fragment); no entry of the directories is hidden
shouldIncludeEntry(entryName, fragment) ==
    /\ Len(fragment) <= Len(entryName)
    /\ SubSeq(entryName, 1, Len(fragment)) = fragment

resolvePathCandidates(input) ==
    LET split == splitPathInput(input)
        included == SelectSeq(DirectoryEntries(split.directoryPrefix),
                              LAMBDA entry : shouldIncludeEntry(entry.name, split.fragment))
    IN  [i \in 1..Len(included) |->
           [value |-> split.directoryPrefix \o included[i].name
                        \o (IF included[i].isDirectory THEN <<"/">> ELSE <<>>),
            isDirectory |-> included[i].isDirectory]]

\* nextCycleIndex(current, total); -1 stands for null
nextCycleIndex(current, total) ==
    IF total <= 0 THEN -1
    ELSE IF current = -1 \/ current < 0 \/ current >= total - 1 THEN 0
    ELSE current + 1

\* the keys read: Tab, Enter, backspace, '/', printable characters, the two
\* arrows and Ctrl+C
Printable == {"a", "b", "x", " "}

PromptKeys == {"\t", "\r", "DEL", "/", "UP", "DOWN", "ETX"} \cup Printable

\* tabBaseInput is [set |-> FALSE] when null; activeIndex counts from 0
InitPrompt ==
    /\ InspectIdle
    /\ CoreIdle
    /\ loadCall = IdleCall
    /\ settingsCall = IdleCall
    /\ menuCall = IdleCall
    /\ wizardCall = IdleCall
    /\ progressCall = IdleCall
    /\ promptCall = [called |-> FALSE, rawInput |-> <<>>,
                     tabBaseInput |-> [set |-> FALSE], activeIndex |-> -1,
                     tabCandidates |-> <<>>,
                     suggestions |-> resolvePathCandidates(<<>>),
                     status |-> "open", value |-> <<>>, lastKey |-> ""]

\* commitActiveCandidate(): the candidate, or [none |-> TRUE] for null
commitActiveCandidate(p) ==
    IF ~ p.tabBaseInput.set \/ p.activeIndex = -1
         \/ p.activeIndex + 1 > Len(p.tabCandidates)
    THEN NoResult
    ELSE p.tabCandidates[p.activeIndex + 1]

cancelTabCycle(p) ==
    [p EXCEPT !.tabBaseInput = [set |-> FALSE], !.activeIndex = -1,
              !.tabCandidates = <<>>]

\* rawInput = selected.value; cancelTabCycle(), when a candidate is selected
Committed(p) ==
    LET selected == commitActiveCandidate(p)
    IN  IF selected = NoResult THEN p
        ELSE cancelTabCycle([p EXCEPT !.rawInput = selected.value])

syncSuggestions(p) == [p EXCEPT !.suggestions = resolvePathCandidates(p.rawInput)]

\* onData(chunk) for one key
onData(p, key) ==
    CASE key = "ETX" -> [p EXCEPT !.status = "exited"]
      [] key \in {"UP", "DOWN"} ->
           IF p.tabBaseInput.set /\ Len(p.tabCandidates) > 0
           THEN LET direction == IF key = "UP" THEN -1 ELSE 1
                    total == Len(p.tabCandidates)
                    start == IF p.activeIndex = -1 THEN 0 ELSE p.activeIndex
                IN  [p EXCEPT !.activeIndex = (start + direction + total) % total]
           ELSE p
      [] key = "\t" ->
           LET begun == IF ~ p.tabBaseInput.set
                        THEN [p EXCEPT !.tabBaseInput = [set |-> TRUE, value |-> p.rawInput],
                                       !.tabCandidates = resolvePathCandidates(p.rawInput),
                                       !.activeIndex = -1]
                        ELSE p
           IN  [begun EXCEPT !.activeIndex = nextCycleIndex(@, Len(begun.tabCandidates))]
      [] key = "\r" ->
           LET selected == commitActiveCandidate(p)
           IN  IF selected # NoResult /\ selected.isDirectory
               THEN syncSuggestions(Committed(p))
               ELSE [Committed(p) EXCEPT !.status = "resolved",
                                         !.value = trim(Committed(p).rawInput)]
      [] key = "DEL" ->
           LET c == Committed(p)
           IN  syncSuggestions([c EXCEPT !.rawInput = SubSeq(@, 1, Len(@) - 1)])
      [] key = "/" ->
           LET c == Committed(p)
           IN  syncSuggestions(
                 IF c.rawInput # <<>> /\ c.rawInput[Len(c.rawInput)] = "/" THEN c
                 ELSE [c EXCEPT !.rawInput = Append(@, "/")])
      [] OTHER ->
           syncSuggestions([Committed(p) EXCEPT !.rawInput = Append(@, key)])

PromptKey(key) ==
    /\ promptCall # IdleCall
    /\ promptCall.status = "open"
    /\ LET after == onData(promptCall, key)
       IN  /\ Len(after.rawInput) <= MaxInputLen
           /\ promptCall' = [after EXCEPT !.called = TRUE, !.lastKey = key]
    /\ UNCHANGED <<inspectVars, scoreCall, wasteCall, extractCall, textCall, similarCall,
                   hostedCall, loadCall, settingsCall, menuCall, wizardCall, progressCall>>

NextPrompt == \E key \in PromptKeys : PromptKey(key)

SpecPrompt == InitPrompt /\ [][NextPrompt]_vars

(***************************************************************************)
(* interactive/wizard.ts: runSetupWizard, one action per step at which it  *)
(* waits for an answer.  Objects live in a heap, so that the shallow copy  *)
(* `{ ...currentSettings }` shares the llm object with currentSettings.    *)
(***************************************************************************)
\* PROVIDERS, for one cloud, one local and the custom provider;
\* defaultBaseUrl "" stands for undefined
PROVIDERS ==
    [openai |-> [category |-> "cloud", defaultBaseUrl |-> "https://api.openai.com/v1",
                 needsApiKey |-> TRUE, modelPresets |-> TRUE],
     ollama |-> [category |-> "local", defaultBaseUrl |-> "http://localhost:11434/v1",
                 needsApiKey |-> FALSE, modelPresets |-> FALSE],
     openai_compatible |-> [category |-> "aggregator", defaultBaseUrl |-> "",
                            needsApiKey |-> TRUE, modelPresets |-> FALSE]]

\* the llm objects a caller passes in currentSettings.llm; temperature in tenths
LlmSettings ==
    [provider : DOMAIN PROVIDERS, baseUrl : {"", "http://localhost:9000/v1"},
     apiKey : {"", "sk-old"}, model : {"gpt-4o-mini"}, temperature : {3},
     maxTokens : {4096}]

\* the value of a settings object: its own fields and the llm object it refers to
SettingsValue(call, object) ==
    [analyzeMode |-> object.analyzeMode, llm |-> call.heap[object.llm]]

\* const settings = { ...currentSettings }
InitWizard ==
    /\ InspectIdle
    /\ CoreIdle
    /\ loadCall = IdleCall
    /\ settingsCall = IdleCall
    /\ menuCall = IdleCall
    /\ promptCall = IdleCall
    /\ progressCall = IdleCall
    /\ \E llm \in LlmSettings, mode \in {"hosted", "llm"} :
         wizardCall = [called |-> FALSE,
                       heap |-> [llm1 |-> llm],
                       currentSettings |-> [analyzeMode |-> mode, llm |-> "llm1"],
                       settings |-> [analyzeMode |-> mode, llm |-> "llm1"],
                       before |-> [analyzeMode |-> mode, llm |-> llm],
                       step |-> "provider", selectedProvider |-> "",
                       returned |-> NoResult]

\* steps 1 and 2: the menus resolve to a provider;
\* settings.llm.provider = selectedProvider
SelectProvider ==
    /\ wizardCall # IdleCall
    /\ wizardCall.step = "provider"
    /\ \E selectedProvider \in DOMAIN PROVIDERS :
         wizardCall' =
           [wizardCall EXCEPT
              !.called = TRUE,
              !.selectedProvider = selectedProvider,
              !.heap[wizardCall.settings.llm].provider = selectedProvider,
              !.step = "baseUrl"]
    /\ UNCHANGED <<inspectVars, scoreCall, wasteCall, extractCall, textCall, similarCall,
                   hostedCall, loadCall, settingsCall, menuCall, promptCall, progressCall>>

\* step 3: the base URL, from the provider's default or from the answers
ConfigureBaseUrl ==
    /\ wizardCall # IdleCall
    /\ wizardCall.step = "baseUrl"
    /\ \E useDefault \in {"", "y", "n"}, customUrl \in {"", "http://localhost:5000/v1"} :
         LET providerInfo == PROVIDERS[wizardCall.selectedProvider]
             llm == wizardCall.settings.llm
         IN  wizardCall' =
               IF providerInfo.category = "cloud" /\ providerInfo.defaultBaseUrl # ""
               THEN [wizardCall EXCEPT !.heap[llm].baseUrl = providerInfo.defaultBaseUrl,
                                       !.step = "apiKey"]
               ELSE IF providerInfo.defaultBaseUrl # ""
               THEN [wizardCall EXCEPT
                       !.heap[llm].baseUrl = IF useDefault \in {"", "y"}
                                             THEN providerInfo.defaultBaseUrl
                                             ELSE customUrl,
                       !.step = "apiKey"]
               ELSE IF customUrl = ""
               THEN [wizardCall EXCEPT
                       !.step = "returned",
                       !.returned = [object |-> "currentSettings",
                                     value |-> SettingsValue(wizardCall,
                                                             wizardCall.currentSettings)]]
               ELSE [wizardCall EXCEPT !.heap[llm].baseUrl = customUrl,
                                       !.step = "apiKey"]
    /\ UNCHANGED <<inspectVars, scoreCall, wasteCall, extractCall, textCall, similarCall,
                   hostedCall, loadCall, settingsCall, menuCall, promptCall, progressCall>>

\* step 4 to the end: API key, model, temperature, max tokens, return settings
ConfigureRest ==
    /\ wizardCall # IdleCall
    /\ wizardCall.step = "apiKey"
    /\ \E update \in {"y", ""}, newKey \in {"", "sk-new"}, model \in {"", "llama3"},
          temperature \in {-1, 7}, maxTokens \in {-1, 1000} :
         LET providerInfo == PROVIDERS[wizardCall.selectedProvider]
             llm == wizardCall.settings.llm
             currentKey == wizardCall.heap[wizardCall.currentSettings.llm].apiKey
             apiKey == IF ~ providerInfo.needsApiKey THEN ""
                       ELSE IF currentKey # "" /\ update # "y" THEN currentKey
                       ELSE IF newKey # "" THEN newKey
                       ELSE wizardCall.heap[llm].apiKey
             configured ==
               [wizardCall EXCEPT
                  !.heap[llm].apiKey = apiKey,
                  !.heap[llm].model = IF model # "" THEN model ELSE @,
                  !.heap[llm].temperature = IF temperature >= 0 THEN temperature ELSE @,
                  !.heap[llm].maxTokens = IF maxTokens > 0 THEN maxTokens ELSE @]
         IN  wizardCall' =
               [configured EXCEPT
                  !.step = "returned",
                  !.returned = [object |-> "settings",
                                value |-> SettingsValue(configured, configured.settings)]]
    /\ UNCHANGED <<inspectVars, scoreCall, wasteCall, extractCall, textCall, similarCall,
                   hostedCall, loadCall, settingsCall, menuCall, promptCall, progressCall>>

NextWizard ==
    \/ SelectProvider
    \/ ConfigureBaseUrl
    \/ ConfigureRest

SpecWizard == InitWizard /\ [][NextWizard]_vars

(***************************************************************************)
(* core/progress: createProgressIndicator, one action per method call and  *)
(* per tick of its interval timer.  Elapsed times are left out; `writes`   *)
(* counts the calls of output.write, `finals` those made by stop.          *)
(***************************************************************************)
\* render(), with frames = DEFAULT_FRAMES
render(p) ==
    IF ~ p.active THEN p
    ELSE [p EXCEPT !.frameIndex = @ + 1,
                   !.writes = @ + 1,
                   !.lastLine = [kind |-> "frame",
                                 symbol |-> <<"-", "\\", "|", "/">>[(p.frameIndex % 4) + 1],
                                 message |-> p.message]]

\* mutant of stop: it does not look at `active`
stop_AlwaysWrites(p, symbol, finalMessage) ==
    [p EXCEPT !.active = FALSE,
              !.timer = "null",
              !.writes = @ + 1,
              !.finals = @ + 1,
              !.lastLine = [kind |-> "final", symbol |-> symbol, message |-> finalMessage]]

\* stop(symbol, finalMessage)
stop(p, symbol, finalMessage) ==
    IF ~ p.active THEN p
    ELSE [p EXCEPT !.active = FALSE,
                   !.timer = "null",
                   !.writes = @ + 1,
                   !.finals = @ + 1,
                   !.lastLine = [kind |-> "final", symbol |-> symbol,
                                 message |-> finalMessage]]

\* createProgressIndicator(initialMessage, options) has returned
InitProgress ==
    /\ InspectIdle
    /\ CoreIdle
    /\ loadCall = IdleCall
    /\ settingsCall = IdleCall
    /\ menuCall = IdleCall
    /\ promptCall = IdleCall
    /\ wizardCall = IdleCall
    /\ \E useAnimation \in BOOLEAN :
         LET created == [called |-> FALSE, useAnimation |-> useAnimation,
                         active |-> TRUE, timer |-> "null", frameIndex |-> 0,
                         messageIndex |-> 0, message |-> "Analyzing", writes |-> 0,
                         finals |-> 0, ignored |-> 0, lastCall |-> "create",
                         lastLine |-> [kind |-> "none", symbol |-> "", message |-> ""]]
         IN  progressCall =
               IF useAnimation THEN [render(created) EXCEPT !.timer = "set"]
               ELSE [created EXCEPT !.writes = 1,
                                    !.lastLine = [kind |-> "line", symbol |-> "",
                                                  message |-> "Analyzing"]]

\* A call is modelled while the indicator is active and may still write, or
\* after it was stopped; `ignored` counts the calls made on a stopped indicator.
\* update(nextMessage)
Update ==
    /\ progressCall # IdleCall
    /\ (IF progressCall.active THEN progressCall.writes < MaxWrites
        ELSE progressCall.ignored < MaxIgnored)
    /\ \E nextMessage \in {"Extracting facts", "Detecting drift"} :
         LET updated ==
               IF ~ progressCall.active THEN progressCall
               ELSE IF progressCall.useAnimation
               THEN render([progressCall EXCEPT !.message = nextMessage])
               ELSE [progressCall EXCEPT
                       !.message = nextMessage,
                       !.writes = @ + 1,
                       !.lastLine = [kind |-> "line", symbol |-> "",
                                     message |-> nextMessage]]
         IN  progressCall' =
               [updated EXCEPT
                  !.called = TRUE, !.lastCall = "update",
                  !.ignored = IF progressCall.active THEN @ ELSE @ + 1]
    /\ UNCHANGED <<inspectVars, scoreCall, wasteCall, extractCall, textCall, similarCall,
                   hostedCall, loadCall, settingsCall, menuCall, promptCall, wizardCall>>

\* succeed(doneMessage)
Succeed ==
    /\ progressCall # IdleCall
    /\ progressCall.active \/ progressCall.ignored < MaxIgnored
    /\ progressCall' =
         [stop(progressCall, "OK", "Analysis complete") EXCEPT
            !.called = TRUE, !.lastCall = "succeed",
            !.ignored = IF progressCall.active THEN @ ELSE @ + 1]
    /\ UNCHANGED <<inspectVars, scoreCall, wasteCall, extractCall, textCall, similarCall,
                   hostedCall, loadCall, settingsCall, menuCall, promptCall, wizardCall>>

\* fail(errorMessage)
Fail ==
    /\ progressCall # IdleCall
    /\ progressCall.active \/ progressCall.ignored < MaxIgnored
    /\ progressCall' =
         [stop(progressCall, "X", "Analysis failed") EXCEPT
            !.called = TRUE, !.lastCall = "fail",
            !.ignored = IF progressCall.active THEN @ ELSE @ + 1]
    /\ UNCHANGED <<inspectVars, scoreCall, wasteCall, extractCall, textCall, similarCall,
                   hostedCall, loadCall, settingsCall, menuCall, promptCall, wizardCall>>

\* the callback of setInterval, which runs while the timer is set
TimerTick ==
    /\ progressCall # IdleCall
    /\ progressCall.timer = "set"
    /\ (IF progressCall.active THEN progressCall.writes < MaxWrites
        ELSE progressCall.ignored < MaxIgnored)
    /\ LET rotating == <<"Analyzing transcript", "Extracting signals",
                         "Detecting drift patterns">>
           next == (progressCall.messageIndex + 1) % 3
           rotated == IF progressCall.frameIndex % 10 = 0
                      THEN [progressCall EXCEPT !.messageIndex = next,
                                                !.message = rotating[next + 1]]
                      ELSE progressCall
       IN  progressCall' =
             [(IF ~ progressCall.active THEN progressCall ELSE render(rotated)) EXCEPT
                !.called = TRUE, !.lastCall = "tick",
                !.ignored = IF progressCall.active THEN @ ELSE @ + 1]
    /\ UNCHANGED <<inspectVars, scoreCall, wasteCall, extractCall, textCall, similarCall,
                   hostedCall, loadCall, settingsCall, menuCall, promptCall, wizardCall>>

NextProgress ==
    \/ Update
    \/ Succeed
    \/ Fail
    \/ TimerTick

SpecProgress == InitProgress /\ [][NextProgress]_vars

(***************************************************************************)
(* Properties.                                                             *)
(***************************************************************************)
CountType(events, type) == Cardinality({i \in 1..Len(events) : events[i].type = type})

\* the documented weights applied to the number of events of each type
DocumentedScore(events) ==
    15 * CountType(events, "preference_forgotten")
    + 10 * CountType(events, "repetition_cluster")
    + 20 * CountType(events, "session_reset")
    + 10 * CountType(events, "contradiction")

Terminated == pc \in {"done", "threw"}

C3_EmptyTranscriptInspects ==
    (transcript = <<>> /\ config.apiKey /\ Terminated)
    => /\ pc = "done"
       /\ result.events = <<>>
       /\ result.drift_score = 0
       /\ result.raw_score = 0
       /\ result.token_waste_pct = 0
       /\ result.should_have_been_memory = <<>>

\* C4 as stated: every event of a result has a non-empty evidence.msg_idxs,
\* all of whose members are the idx of a message of the transcript.
C4_EvidenceRefersToMessages ==
    pc = "done" =>
      \A i \in 1..Len(result.events) :
        /\ result.events[i].evidence.msg_idxs # <<>>
        /\ \A idx \in Range(result.events[i].evidence.msg_idxs) :
             \E j \in 1..Len(transcript) : transcript[j].idx = idx

\* C5 as stated: every repetition_cluster event has cluster_size equal to
\* the length of its evidence.msg_idxs.
C5_ClusterSizeIsEvidenceLength ==
    pc = "done" =>
      \A i \in 1..Len(result.events) :
        result.events[i].type = "repetition_cluster"
        => result.events[i].cluster_size = Len(result.events[i].evidence.msg_idxs)

\* C6 as stated: every event of a result has an integer severity in 1..5
\* and a confidence in [0,1], whatever the detector reported.
C6_SeverityAndConfidenceInRange ==
    pc = "done" =>
      \A i \in 1..Len(result.events) :
        /\ result.events[i].severity \in {10, 20, 30, 40, 50}
        /\ 0 <= result.events[i].confidence
        /\ result.events[i].confidence <= 100

\* the sum of the weights of the events whose type is a key of the table
TableScore(events, weights) ==
    SumSeq([i \in 1..Len(events) |->
               IF events[i].type \in DOMAIN weights THEN weights[events[i].type] ELSE 0])

\* C7 as stated: an event whose type is not a key of the weight table adds
\* exactly 0 to raw_score, for any type string: raw_score is the number that
\* the events with a type of the table add up to.
C7_UnknownTypeAddsZero ==
    scoreCall.called
    => /\ scoreCall.ret.numeric
       /\ scoreCall.ret.raw_score = TableScore(scoreCall.events, scoreCall.weights)

\* fields the detection prompt and the extraction prompt ask for in every record
RequiredEventFields == {"type", "severity", "confidence", "msg_idxs"}

RequiredFactFields == {"fact_key", "fact_value", "confidence"}

Complete(record, required) == required \subseteq DOMAIN record

CountComplete(records, required) ==
    Cardinality({i \in 1..Len(records) : Complete(records[i], required)})

WeightOfReported(record) ==
    IF ~Has(record, "type") THEN 20
    ELSE CASE record.type \in {"repetition_cluster", "contradiction"} -> 10
           [] record.type \in {"preference_forgotten", "inconsistent_behavior"} -> 15
           [] OTHER -> 20

EventKey(e) == <<e.severity, e.confidence>>

WithKey(events, key) == SelectSeq(events, LAMBDA e : EventKey(e) = key)

\* C9: the events of a result are ordered by severity descending, then by
\* confidence descending, and events equal in both are in the order in which
\* the detector emitted them.
C9_EventsSortedStable ==
    pc = "done" =>
      /\ Len(result.events) = Len(allEvents)
      /\ \A i, j \in 1..Len(result.events) :
           i < j => \/ result.events[i].severity > result.events[j].severity
                    \/ /\ result.events[i].severity = result.events[j].severity
                       /\ result.events[i].confidence >= result.events[j].confidence
      /\ \A key \in {EventKey(allEvents[i]) : i \in 1..Len(allEvents)} :
           WithKey(result.events, key) = WithKey(allEvents, key)

\* a result with two different events that tie in severity and confidence
C9_Witness ==
    /\ pc = "done"
    /\ \E i, j \in 1..Len(result.events) :
         /\ i < j
         /\ EventKey(result.events[i]) = EventKey(result.events[j])
         /\ result.events[i] # result.events[j]

\* C10: calculateTokenWaste counts the tokens of exactly the user messages
\* whose idx is in the evidence.msg_idxs of some repetition_cluster event, each
\* message once, and returns 100 * waste_tokens / total_tokens.
C10_TokenWasteCountsClusteredUserMessages ==
    wasteCall.called =>
      LET messages == wasteCall.messages
          events == wasteCall.events
          InCluster(j) ==
              \E k \in 1..Len(events) :
                /\ events[k].type = "repetition_cluster"
                /\ messages[j].idx \in Range(events[k].evidence.msg_idxs)
          waste_tokens ==
              SumSeq([j \in 1..Len(messages) |->
                         IF messages[j].role = "user" /\ InCluster(j)
                         THEN messages[j].tokens ELSE 0])
          total_tokens == SumSeq([j \in 1..Len(messages) |-> messages[j].tokens])
      IN  total_tokens > 0
            => wasteCall.ret.num * total_tokens = 100 * waste_tokens * wasteCall.ret.den

\* a call in which a user message with tokens is named by two clusters and a
\* clustered assistant message has tokens too
C10_Witness ==
    /\ wasteCall.called
    /\ wasteCall.ret.num > 0
    /\ \E j \in 1..Len(wasteCall.messages) :
         /\ wasteCall.messages[j].role = "user"
         /\ wasteCall.messages[j].tokens > 0
         /\ \E k1, k2 \in 1..Len(wasteCall.events) :
              /\ k1 # k2
              /\ wasteCall.events[k1].type = "repetition_cluster"
              /\ wasteCall.events[k2].type = "repetition_cluster"
              /\ wasteCall.messages[j].idx \in Range(wasteCall.events[k1].evidence.msg_idxs)
              /\ wasteCall.messages[j].idx \in Range(wasteCall.events[k2].evidence.msg_idxs)
    /\ \E j \in 1..Len(wasteCall.messages), k \in 1..Len(wasteCall.events) :
         /\ wasteCall.messages[j].role = "assistant"
         /\ wasteCall.messages[j].tokens > 0
         /\ wasteCall.events[k].type = "repetition_cluster"
         /\ wasteCall.messages[j].idx \in Range(wasteCall.events[k].evidence.msg_idxs)

\* C11: for a message list with unique idx and non-negative token counts and
\* any event list, calculateTokenWaste returns a number between 0 and 100
\* (never NaN, which would be a quotient with den = 0), and it returns 0 when
\* the token counts sum to 0.
C11_TokenWasteInRange ==
    wasteCall.called =>
      LET messages == wasteCall.messages
          total_tokens == SumSeq([j \in 1..Len(messages) |-> messages[j].tokens])
      IN  /\ wasteCall.ret.den > 0
          /\ 0 <= wasteCall.ret.num
          /\ wasteCall.ret.num <= 100 * wasteCall.ret.den
          /\ total_tokens = 0 => wasteCall.ret.num = 0

\* a call that passes the `repetitionEvents.length === 0` return with messages
\* whose token counts sum to 0, a clustered user message among them
C11_Witness ==
    /\ wasteCall.called
    /\ Len(wasteCall.messages) >= 2
    /\ \A j \in 1..Len(wasteCall.messages) : wasteCall.messages[j].tokens = 0
    /\ \E j \in 1..Len(wasteCall.messages), k \in 1..Len(wasteCall.events) :
         /\ wasteCall.messages[j].role = "user"
         /\ wasteCall.events[k].type = "repetition_cluster"
         /\ wasteCall.messages[j].idx \in Range(wasteCall.events[k].evidence.msg_idxs)
    /\ wasteCall.ret.num = 0

\* C12: every fact that extractFactsLLM or extractFactsLLMBatched returns, or
\* has collected so far, has as msg_idx the idx of a message of the messages
\* it was given, whatever msg_idx the answers of the model carried.
C12_FactRefersToMessage ==
    extractCall # IdleCall =>
      \A k \in 1..Len(extractCall.facts) :
        \E j \in 1..Len(extractCall.messages) :
          extractCall.messages[j].idx = extractCall.facts[k].msg_idx

\* a batched extraction has returned two facts: one answered with a msg_idx
\* beyond the user messages, one with a msg_idx that is not the idx of the
\* message it is mapped to
C12_Witness ==
    /\ extractCall # IdleCall
    /\ extractCall.batched
    /\ extractCall.status = "returned"
    /\ \E k \in 1..Len(extractCall.facts) :
         /\ Has(extractCall.raw[k], "msg_idx")
         /\ extractCall.raw[k].msg_idx >= Len(extractCall.messages)
    /\ \E k \in 1..Len(extractCall.facts) :
         /\ Has(extractCall.raw[k], "msg_idx")
         /\ extractCall.raw[k].msg_idx < Len(userMessagesOf(extractCall.messages))
         /\ extractCall.raw[k].msg_idx # extractCall.facts[k].msg_idx

\* the two facts of Scenario 1 as extractFactsLLM returns them
Scenario1Facts ==
    <<[fact_key |-> "pref:language", fact_value |-> "bangla", msg_idx |-> 2, confidence |-> 70],
      [fact_key |-> "pref:language", fact_value |-> "bangla", msg_idx |-> 4, confidence |-> 70]>>

\* C13: in Scenario 1 (user messages at idx 2 and 4, the fact
\* pref:language=bangla extracted at idx 2 and at idx 4) the result has exactly
\* one preference_forgotten event and one repetition_cluster event, raw_score
\* 25 and drift_score 25.
C13_Scenario1Score ==
    (pc = "done" /\ transcript = ReadmeTranscript /\ facts = Scenario1Facts) =>
      /\ Len(result.events) = 2
      /\ CountType(result.events, "preference_forgotten") = 1
      /\ CountType(result.events, "repetition_cluster") = 1
      /\ result.raw_score = 250
      /\ result.drift_score = 250

\* the last fact recorded for the fact_key of facts[k] before facts[k], in
\* msg_idx order (ties in the order of the list); 0 when there is none
Before(fs, j, k) ==
    \/ fs[j].msg_idx < fs[k].msg_idx
    \/ fs[j].msg_idx = fs[k].msg_idx /\ j < k

LastRecorded(fs, k) ==
    LET same == {j \in 1..Len(fs) :
                    /\ Before(fs, j, k)
                    /\ FieldOr(fs[j], "fact_key", "undefined")
                         = FieldOr(fs[k], "fact_key", "undefined")}
    IN  IF same = {} THEN 0
        ELSE CHOOSE j \in same : \A i \in same : i = j \/ Before(fs, i, j)

\* the contradictions the fold over the facts emits
FoldContradictions(fs) ==
    {[old_value |-> FieldOr(fs[LastRecorded(fs, k)], "fact_value", "undefined"),
      new_value |-> FieldOr(fs[k], "fact_value", "undefined"),
      msg_idxs |-> <<fs[LastRecorded(fs, k)].msg_idx, fs[k].msg_idx>>] :
        k \in {n \in 1..Len(fs) :
                 /\ LastRecorded(fs, n) # 0
                 /\ FieldOr(fs[LastRecorded(fs, n)], "fact_value", "undefined")
                      # FieldOr(fs[n], "fact_value", "undefined")}}

\* C14: the contradiction events of a result are exactly those of the fold
\* over the extracted facts in msg_idx order with one last-seen value per
\* fact_key: one event, with old_value, new_value and
\* evidence.msg_idxs = [old.msg_idx, new.msg_idx], for each fact whose value
\* differs from the last one recorded for its key, and no other.
C14_ContradictionsFollowFacts ==
    pc = "done" =>
      LET reported ==
              {[old_value |-> result.events[i].old_value,
                new_value |-> result.events[i].new_value,
                msg_idxs |-> result.events[i].evidence.msg_idxs] :
                 i \in {n \in 1..Len(result.events) :
                          result.events[n].type = "contradiction"}}
      IN  /\ reported = FoldContradictions(facts)
          /\ CountType(result.events, "contradiction")
               = Cardinality(FoldContradictions(facts))

\* C15: normalizeText is idempotent: normalizing what normalizeText returned
\* returns it unchanged.
C15_NormalizeTextIdempotent ==
    (textCall # IdleCall /\ Len(textCall.results) = 2) =>
      textCall.results[2] = textCall.results[1]

\* letters and digits of any script, and the underscore
IsUnicodeWordChar(c) == IsWordChar(c) \/ c \in {"é", "É"}

\* C16: normalizeText removes only characters that are neither word
\* characters nor whitespace, letters outside ASCII being word characters:
\* the result is the lowercased, trimmed and whitespace-collapsed text
\* without its characters that are neither.
C16_UnicodeWordCharsKept ==
    (textCall # IdleCall /\ Len(textCall.results) >= 1) =>
      textCall.results[1]
        = SelectSeq(collapseWhitespace(trim(toLowerCase(textCall.text))),
                    LAMBDA c : IsUnicodeWordChar(c) \/ IsWhitespace(c))

\* the tokens two lists share, and the tokens of either
Shared(tokens1, tokens2) ==
    {t \in Tokens \cup Range(BoundaryTokens) : (\E i \in 1..Len(tokens1) : tokens1[i] = t)
                    /\ (\E j \in 1..Len(tokens2) : tokens2[j] = t)}

Either(tokens1, tokens2) ==
    {t \in Tokens \cup Range(BoundaryTokens) : (\E i \in 1..Len(tokens1) : tokens1[i] = t)
                    \/ (\E j \in 1..Len(tokens2) : tokens2[j] = t)}

\* C17: areSimilar(tokensA, tokensB, threshold) is true exactly when the
\* Jaccard similarity of the two token sets (1 for two empty sets) is at least
\* the threshold: true at the threshold, false below it.
C17_SimilarAtOrAboveThreshold ==
    (similarCall # IdleCall /\ similarCall.similarCalled) =>
      LET shared == Cardinality(Shared(similarCall.tokens1, similarCall.tokens2))
          either == Cardinality(Either(similarCall.tokens1, similarCall.tokens2))
      IN  similarCall.similar
            <=> IF either = 0 THEN similarCall.threshold <= 100
                ELSE 100 * shared >= similarCall.threshold * either

\* areSimilar was called with the default threshold on token lists whose
\* similarity is exactly 0.65
C17_Witness ==
    /\ similarCall # IdleCall
    /\ similarCall.similarCalled
    /\ similarCall.similar
    /\ similarCall.threshold = DEFAULT_THRESHOLD
    /\ 100 * Cardinality(Shared(similarCall.tokens1, similarCall.tokens2))
         = DEFAULT_THRESHOLD * Cardinality(Either(similarCall.tokens1, similarCall.tokens2))

\* C18: jaccardSimilarity(A, B) lies in [0, 1] for all finite sets, and
\* jaccardSimilarity(A, A) is 1 for every A, the empty set included.
C18_JaccardBounds ==
    (similarCall # IdleCall /\ similarCall.jaccardCalled) =>
      /\ similarCall.jaccard.den > 0
      /\ 0 <= similarCall.jaccard.num
      /\ similarCall.jaccard.num <= similarCall.jaccard.den
      /\ Either(similarCall.tokens1, <<>>) = Either(similarCall.tokens2, <<>>)
           => similarCall.jaccard.num = similarCall.jaccard.den

\* jaccardSimilarity was called on two empty sets and returned 1
C18_Witness ==
    /\ similarCall # IdleCall
    /\ similarCall.jaccardCalled
    /\ similarCall.tokens1 = <<>>
    /\ similarCall.tokens2 = <<>>
    /\ similarCall.jaccard.num = similarCall.jaccard.den

\* C19: with config.analyzeMode absent or 'hosted', inspectTranscript never
\* constructs an LLM client and a result it returns came from a request to the
\* hosted API; with 'llm' no request is sent to the hosted API.
C19_HostedUnlessLlm ==
    pc # "idle" =>
      LET mode == FieldOr(config, "analyzeMode", "hosted")
      IN  /\ mode = "hosted" =>
               /\ pc \notin {"extract", "detect"}
               /\ pc = "threw" => error # "API key not found"
               /\ pc = "done" => hostedCall # IdleCall /\ rawFacts = <<>> /\ rawEvents = <<>>
          /\ mode = "llm" => hostedCall = IdleCall

\* C20: one callHostedApi invocation started at attempt 0 with a retry count
\* retries >= 0 sends at most retries + 1 requests, whatever the responses,
\* timeouts and network failures, and after retries + 1 requests it has
\* returned or thrown.
C20_RetriesBounded ==
    hostedCall # IdleCall =>
      /\ hostedCall.requests <= hostedCall.retries + 1
      /\ hostedCall.requests = hostedCall.retries + 1
           => hostedCall.status \in {"returned", "threw"}

\* with retries = 1, a 429 followed by a 200: two requests and success
C20_Witness ==
    /\ hostedCall # IdleCall
    /\ hostedCall.retries = 1
    /\ hostedCall.history = <<429, 200>>
    /\ hostedCall.requests = 2
    /\ hostedCall.status = "returned"

C22_InvalidBodyNotRetried ==
    hostedCall # IdleCall =>
      \A i \in 1..Len(hostedCall.history) :
        hostedCall.history[i] = 299 =>
          /\ i = Len(hostedCall.history)
          /\ hostedCall.status = "threw"
          /\ hostedCall.error = "Invalid API response."

\* C28: the raw-text fallback call is made at most once, only after the
\* first call failed with status 400 on a transcript with messages; any
\* other failure is rethrown as it was thrown, a failure of the fallback
\* call starts no further fallback, and at most 2 * (retries + 1) requests
\* are sent.
C28_FallbackAtMostOnce ==
    hostedCall # IdleCall =>
      /\ hostedCall.fallbacks <= 1
      /\ Len(hostedCall.history) <= 2 * (hostedCall.retries + 1)
      /\ hostedCall.fallbacks = 0 <=> hostedCall.call = "first"
      /\ hostedCall.call = "fallback" =>
           /\ hostedCall.fallbackAt \in 1..(hostedCall.retries + 1)
           /\ hostedCall.history[hostedCall.fallbackAt] = 400
           /\ hostedCall.messages > 0
           /\ Len(hostedCall.history) - hostedCall.fallbackAt
                <= hostedCall.retries + 1
      /\ (hostedCall.status = "threw" /\ hostedCall.call = "first") =>
           LET last == hostedCall.history[Len(hostedCall.history)]
           IN  /\ ~ (last = 400 /\ hostedCall.messages > 0)
               /\ last \in HttpErrorStatuses
                    => hostedCall.error = formatHttpError(last)
               /\ last = 0 => hostedCall.error = "Analyze API timed out. Try again."

\* with retries = 1: 500, then 400, then the fallback call answered 503 and
\* 400: four requests, one fallback, the second 400 is thrown
C28_Witness ==
    /\ hostedCall # IdleCall
    /\ hostedCall.retries = 1
    /\ hostedCall.history = <<500, 400, 503, 400>>
    /\ hostedCall.fallbacks = 1
    /\ hostedCall.status = "threw"
    /\ hostedCall.error = "Transcript format invalid."

\* C23: loadTranscript rejects with an error containing 'Invalid JSON' when
\* the file exists but its content is not valid JSON.
C23_InvalidJsonRejected ==
    (loadCall # IdleCall /\ loadCall.called /\ loadCall.file.kind = "not_json") =>
      /\ loadCall.outcome.threw
      /\ loadCall.outcome.error = "Invalid JSON"

\* C24: the analyze mode loadSettings returns is the environment variable's
\* value when MEMOGRAPH_ANALYZE_MODE is set (to 'hosted' or 'llm'), otherwise
\* the analyzeMode stored in the config file, otherwise 'hosted'; on every
\* return path.
C24_AnalyzeModePriority ==
    (settingsCall # IdleCall /\ settingsCall.called) =>
      LET env == settingsCall.env
          file == settingsCall.file
          mode == settingsCall.settings.analyzeMode
      IN  /\ env \in {"llm", "hosted"} => mode = env
          /\ env = "unset" =>
               mode = IF file.kind = "ok" THEN FieldOr(file.loaded, "analyzeMode", "hosted")
                      ELSE "hosted"

\* C25: in a select menu Esc does not terminate the application; the
\* application exits from the menu only on Ctrl+C.
C25_EscDoesNotExit ==
    (menuCall # IdleCall /\ menuCall.called) =>
      LET last == menuCall.keys[Len(menuCall.keys)]
      IN  /\ last = <<27>> => menuCall.status # "exited"
          /\ menuCall.status = "exited" => last = <<3>>

\* C26 (as stated): through the whole pipeline an event reported with a type
\* outside the four known types keeps that type and adds nothing to a
\* raw_score calculated from the events.
C26_UnknownTypeScoresZero ==
    pc = "done" =>
      /\ \A i \in 1..Len(rawEvents) :
           (Has(rawEvents[i], "type") /\ rawEvents[i].type \notin DOMAIN DEFAULT_WEIGHTS)
             => allEvents[i].type = rawEvents[i].type
      /\ driftScores = <<>> =>
           result.raw_score =
             10 * SumSeq([i \in 1..Len(rawEvents) |->
                            IF FieldOr(rawEvents[i], "type", "undefined")
                                 \in DOMAIN DEFAULT_WEIGHTS
                            THEN DEFAULT_WEIGHTS[rawEvents[i].type] ELSE 0])

\* C26 (amended): through the pipeline an event reported with a type outside
\* the four known types does not keep it: it becomes a preference_forgotten
\* event (reported inconsistent_behavior) or a session_reset event (any other
\* or no type), every event of the result has a known type, and a raw_score
\* calculated from the events counts it with 15 or 20.
C26_UnknownTypeConverted ==
    pc = "done" =>
      /\ \A i \in 1..Len(result.events) : result.events[i].type \in DOMAIN DEFAULT_WEIGHTS
      /\ \A i \in 1..Len(rawEvents) :
           LET reported == FieldOr(rawEvents[i], "type", "undefined")
           IN  reported \notin DOMAIN DEFAULT_WEIGHTS =>
                 allEvents[i].type = IF reported = "inconsistent_behavior"
                                     THEN "preference_forgotten" ELSE "session_reset"
      /\ driftScores = <<>> =>
           result.raw_score =
             10 * SumSeq([i \in 1..Len(rawEvents) |->
                            LET reported == FieldOr(rawEvents[i], "type", "undefined")
                            IN  IF reported \in DOMAIN DEFAULT_WEIGHTS
                                THEN DEFAULT_WEIGHTS[reported]
                                ELSE IF reported = "inconsistent_behavior" THEN 15 ELSE 20])

\* an inspection returned with a calculated score of 20 for a single event
\* reported with the type 'invalid_event'
C26_Witness ==
    /\ pc = "done"
    /\ Len(rawEvents) = 1
    /\ Has(rawEvents[1], "type")
    /\ rawEvents[1].type = "invalid_event"
    /\ driftScores = <<>>
    /\ result.events[1].type = "session_reset"
    /\ result.raw_score = 200

\* C27: after any keystroke that edits the typed path (a printable
\* character, '/' or backspace) the tab cycle is inactive: tabBaseInput is
\* null.
C27_EditCancelsTabCycle ==
    (promptCall # IdleCall /\ promptCall.lastKey \in Printable \cup {"/", "DEL"}) =>
      ~ promptCall.tabBaseInput.set

\* C29: when runSetupWizard ends early because no base URL was entered for a
\* provider without a default base URL, the object it returns has the field
\* values currentSettings had before the call, llm.provider and llm.baseUrl
\* included, and currentSettings is unchanged.
C29_EarlyReturnKeepsSettings ==
    (wizardCall # IdleCall /\ wizardCall.step = "returned"
       /\ wizardCall.returned.object = "currentSettings") =>
      /\ wizardCall.returned.value = wizardCall.before
      /\ SettingsValue(wizardCall, wizardCall.currentSettings) = wizardCall.before

\* C30: once succeed or fail has been called, the indicator writes nothing
\* further: every later update, succeed or fail call and every timer tick
\* leaves the output as it is, exactly one final line has been written, and
\* the interval timer is cleared.
C30_SilentAfterStop ==
    [][/\ progressCall'.lastCall \in {"succeed", "fail"} => ~ progressCall'.active
       /\ ~ progressCall'.active =>
            /\ progressCall'.finals = 1
            /\ progressCall'.timer = "null"
       /\ ~ progressCall.active =>
            /\ ~ progressCall'.active
            /\ progressCall'.writes = progressCall.writes
            /\ progressCall'.lastLine = progressCall.lastLine]_vars

\* an animated indicator that was stopped by succeed after its message had
\* rotated, and then received an update and a fail call
C30_Witness ==
    /\ progressCall # IdleCall
    /\ progressCall.useAnimation
    /\ ~ progressCall.active
    /\ progressCall.messageIndex = 1
    /\ progressCall.ignored = 2
    /\ progressCall.lastCall = "fail"
    /\ progressCall.lastLine = [kind |-> "final", symbol |-> "OK",
                                message |-> "Analysis complete"]
    /\ progressCall.finals = 1
    /\ progressCall.timer = "null"

====
